---- MODULE Spec2Model ----
(***************************************************************************)
(* State-machine model of the thumbnail generation service:                *)
(*   GenerationsService.createFromMultipart and the multi-pass masked-edit *)
(*   pipeline GenerationsService.generateSpecialWithMasks, together with   *)
(*   the storage sink, the generation records and the edit capability at   *)
(*   their boundary.                                                       *)
(***************************************************************************)
EXTENDS Integers, Sequences, FiniteSets, TLC

VARIABLES
    template,   \* the template row the requests refer to
    files,      \* the storage directory: path -> content
    db,         \* generation records: id -> [status, outputUrl]
    editLog,    \* every invocation of the edit capability, in call order
    proc,       \* per request: the handler's position and its locals
    conn,       \* per request: whether the HTTP client is still connected
    active,     \* the generation ids requests may be created under
    eval        \* a helper function under evaluation: its arguments and result

vars == <<template, files, db, editLog, proc, conn, active, eval>>

----------------------------------------------------------------------------
(* Bounds of the model *)

MaxPolys == 2
MaxTexts == 1

----------------------------------------------------------------------------
(* Values *)

Gens == {"g1", "g2"}

Nil == [type |-> "nil"]
NoFile == [type |-> "none"]

MaskedPasses == {"background", "main"}
PassOrder == <<"background", "main", "text">>

\* A label as typed by the template author: its letters (lower-cased and
\* trimmed), whether it was typed with surrounding blanks, and whether it
\* was typed with capitals.
L(text, pad, upper) == [text |-> text, pad |-> pad, upper |-> upper]
Canon(text) == L(text, FALSE, FALSE)

\* The polygons a template's configuration is made of: an aliased and
\* padded background label, a background polygon that is not a polygon
\* (two points), a capitalised main label, and a text region.
PolyChoices ==
    << [label |-> L("bg", TRUE, TRUE), npts |-> 3],
       [label |-> Canon("background"), npts |-> 2],
       [label |-> L("main", FALSE, TRUE), npts |-> 3],
       [label |-> Canon("text"), npts |-> 3] >>

SeqsUpTo(S, n) == UNION { [1..k -> S] : k \in 0..n }

\* the elements of s at the indices in I, in their order in s
SubSeq_At(s, I) ==
    LET n == Cardinality(I)
        f == CHOOSE f \in [1..n -> I] : \A i, j \in 1..n : i < j => f[i] < f[j]
    IN  [i \in 1..n |-> s[f[i]]]

\* a template holds up to MaxPolys of them
PolygonConfigs ==
    { SubSeq_At(PolyChoices, I) :
        I \in { J \in SUBSET DOMAIN PolyChoices : Cardinality(J) <= MaxPolys } }

ImageDims == {"1536x1024", "1024x1024"}
EditOutputDims == ImageDims \cup {"unreadable"}

Img(gen, origin, attempt, dims) ==
    [type |-> "image", gen |-> gen, origin |-> origin, attempt |-> attempt,
     dims |-> dims]

TemplateImg(d) == Img("-", "template", "-", d)

Path(kind, gen, name) == [kind |-> kind, gen |-> gen, name |-> name]
TemplatePath == Path("templates", "-", "template")

SlotIds == {"background", "main", "left_person"}
KnownSlotIds == {"background", "main"}
TextKeys == {"title"}
TextEntries ==
    { [key |-> "title", value |-> "Hi"], [key |-> "title", value |-> ""],
      [key |-> "promo", value |-> "Hi"] }
NoteValues == {"null", "make it pop"}

Requests ==
    [ slots : SeqsUpTo(SlotIds, 2),
      texts : SeqsUpTo(TextEntries, MaxTexts),
      notes : NoteValues ]

Templates ==
    [ isSpecial : BOOLEAN, hasImage : BOOLEAN,
      polygons : PolygonConfigs, dims : ImageDims ]

----------------------------------------------------------------------------
(* Pure helpers of generations.service.ts *)

MinPolygonPoints == 3

TrimLower(l) == [l EXCEPT !.pad = FALSE, !.upper = FALSE]

normalizePolygonLabel(value) ==
    LET s == TrimLower(value) IN
    IF s.text = "" THEN Canon("")
    ELSE IF s.text \in {"background image", "background photo", "bg",
                        "background_scene"}
         THEN Canon("background")
    ELSE IF s.text \in {"main subject", "subject", "foreground", "fg",
                        "person"}
         THEN Canon("main")
    ELSE s

\* mutant: polygons are kept whatever their number of points
normalizePolygons_KeepsShort(polygons) ==
    LET norm == [i \in 1..Len(polygons) |->
                    [label |-> normalizePolygonLabel(polygons[i].label),
                     npts |-> polygons[i].npts]]
    IN  SelectSeq(norm, LAMBDA q : q.label.text # "")

\* lines 639-654: labels normalized; unlabelled and short polygons dropped
normalizePolygons(polygons) ==
    LET norm == [i \in 1..Len(polygons) |->
                    [label |-> normalizePolygonLabel(polygons[i].label),
                     npts |-> polygons[i].npts]]
    IN  SelectSeq(norm, LAMBDA q : q.label.text # ""
                                   /\ ~(q.npts < MinPolygonPoints))

availableLabels(normalizedPolygons) ==
    { normalizedPolygons[i].label : i \in DOMAIN normalizedPolygons }

\* subjectAbsPathBySlotId.get(slot) ?? null, as "was this slot uploaded"
SlotUploaded(r, slot) == \E i \in DOMAIN r.slots : r.slots[i] = slot

SubjectPath(g, slot) == Path("subjects", g, slot)

\* mutant: the guard forgets to test that the slot's image was uploaded
PassApplicable_IgnoresUpload(pass, r, polygons) ==
    IF pass \in MaskedPasses
    THEN Canon(pass) \in availableLabels(normalizePolygons(polygons))
    ELSE Len(r.texts) # 0

\* the `if` in front of each pass of generateSpecialWithMasks
PassApplicable(pass, r, polygons) ==
    IF pass \in MaskedPasses
    THEN SlotUploaded(r, pass)
         /\ Canon(pass) \in availableLabels(normalizePolygons(polygons))
    ELSE Len(r.texts) # 0

\* mutant: the text pass is placed before the main pass
NextPass_TextBeforeMain(pass) ==
    CASE pass = "background" -> "text"
      [] pass = "text" -> "main"
      [] OTHER -> "none"

NextPass(pass) ==
    CASE pass = "background" -> "main"
      [] pass = "main" -> "text"
      [] OTHER -> "none"

\* buildEditMaskPng as the pipeline sees it: a raster of the given
\* dimensions carved by the polygons whose label satisfies the predicate
InvalidDims(d) == d = "unreadable"

buildEditMaskPng(d, normalizedPolygons, label) ==
    [type |-> "mask", dims |-> d, label |-> label,
     polys |-> SelectSeq(normalizedPolygons,
                         LAMBDA q : TrimLower(q.label) = Canon(label))]

\* prompts: the fixed instruction of the pass, plus the user's notes if any
buildSpecialPassPrompt(pass, userNotes) ==
    [type |-> "prompt", kind |-> pass, line1 |-> "", line2 |-> "",
     notes |-> userNotes]

TemplateTextFields == <<"title">>

ByKey(texts, key, dflt) ==
    LET hits == { i \in DOMAIN texts : texts[i].key = key } IN
    IF hits = {} THEN dflt
    ELSE texts[CHOOSE i \in hits : \A j \in hits : j <= i].value

\* String.prototype.trimEnd on the values a request may carry
trimEnd(value) == IF value = "Yo " THEN "Yo" ELSE value

\* lines 697-721: keys are the configured text fields of the template
extractTwoLineText(keys, texts) ==
    LET val(n) == IF n <= Len(texts) THEN texts[n].value ELSE ""
        key(n) == IF n <= Len(keys) THEN keys[n]
                  ELSE IF n <= Len(texts) THEN texts[n].key ELSE ""
    IN  <<trimEnd(ByKey(texts, key(1), val(1))),
          trimEnd(ByKey(texts, key(2), val(2)))>>

buildSpecialChangeTextPrompt(texts, userNotes) ==
    [type |-> "prompt", kind |-> "text",
     line1 |-> extractTwoLineText(TemplateTextFields, texts)[1],
     line2 |-> extractTwoLineText(TemplateTextFields, texts)[2],
     notes |-> userNotes]

buildGenerationPrompt(r) ==
    [type |-> "prompt", kind |-> "generic", line1 |-> "", line2 |-> "",
     notes |-> r.notes]

MaskStep(pass) == IF pass = "background" THEN "mask-background" ELSE "mask-main"
PromptStep(pass) ==
    CASE pass = "background" -> "prompt-background"
      [] pass = "main" -> "prompt-main"
      [] OTHER -> "prompt-text"
FallbackStep(pass) ==
    IF pass = "background" THEN "prompt-background-fallback"
    ELSE "prompt-main-fallback"
OutputStep(pass) ==
    CASE pass = "background" -> "pass-1-background"
      [] pass = "main" -> "pass-2-main"
      [] OTHER -> "pass-3-text"

\* mutant: one directory of intermediates for all generations
IntermediatePath_Shared(g, stepName) == Path("intermediate", "-", stepName)

\* storage.service.ts lines 62-90: <images>/<generationId>/intermediate/<step>
IntermediatePath(g, stepName) == Path("intermediate", g, stepName)
GenerationImagePath(g) == Path("generations", g, "output")

ReadFile(path) == IF path \in DOMAIN files THEN files[path] ELSE NoFile

----------------------------------------------------------------------------
(* createFromMultipart: validation *)

HasDuplicate(slots) ==
    \E i, j \in DOMAIN slots : i # j /\ slots[i] = slots[j]

\* what the handler is called with, next to the fields of the request: the
\* client and template ids of the route, the number of uploaded images, the
\* customization ids, and the form schema of the template row
FormSchema(requiredSlots, requiredTexts, customizations) ==
    [requiredSlots |-> requiredSlots, requiredTexts |-> requiredTexts,
     customizations |-> customizations]

NoFormSchema == FormSchema({}, {}, {})

Call(r) ==
    [client |-> "owned", templateId |-> "known", dto |-> r,
     images |-> Len(r.slots), customizations |-> {}, schema |-> NoFormSchema]

\* line 149: new Map(texts.map(t => [t.key, t.value.trim()])).get(k) ?? ''
IncomingText(texts, k) ==
    LET at == { i \in DOMAIN texts : texts[i].key = k }
    IN  IF at = {} THEN "" ELSE texts[CHOOSE i \in at : \A j \in at : j <= i].value

\* mutant: the number of uploaded images is not compared with the slot ids
ValidationError_IgnoresCount(c) ==
    LET r == c.dto IN
    IF c.client # "owned" THEN "Client not found"
    ELSE IF c.templateId # "known" THEN "Template not found"
    ELSE IF ~template.hasImage THEN "Template has no image yet"
    ELSE IF HasDuplicate(r.slots) THEN "Duplicate subject slot ID"
    ELSE IF \E i \in DOMAIN r.slots : r.slots[i] \notin KnownSlotIds
         THEN "Unknown subject slot ID"
    ELSE IF \E k \in c.schema.requiredSlots : \A i \in DOMAIN r.slots : r.slots[i] # k
         THEN "Missing required subject uploads"
    ELSE IF \E i \in DOMAIN r.texts : r.texts[i].key \notin TextKeys
         THEN "Unknown text key"
    ELSE IF \E k \in c.schema.requiredTexts : IncomingText(r.texts, k) = ""
         THEN "Missing required text"
    ELSE IF \E id \in c.customizations : id \notin c.schema.customizations
         THEN "Unknown customization"
    ELSE "ok"

\* lines 52-160: the checks of createFromMultipart, in their order
ValidationError(c) ==
    LET r == c.dto IN
    IF c.client # "owned" THEN "Client not found"
    ELSE IF c.templateId # "known" THEN "Template not found"
    ELSE IF ~template.hasImage THEN "Template has no image yet"
    ELSE IF HasDuplicate(r.slots) THEN "Duplicate subject slot ID"
    ELSE IF \E i \in DOMAIN r.slots : r.slots[i] \notin KnownSlotIds
         THEN "Unknown subject slot ID"
    ELSE IF Len(r.slots) # c.images
         THEN "subjectSlotIdsJson length must match number of uploaded subjectImages"
    ELSE IF \E k \in c.schema.requiredSlots : \A i \in DOMAIN r.slots : r.slots[i] # k
         THEN "Missing required subject uploads"
    ELSE IF \E i \in DOMAIN r.texts : r.texts[i].key \notin TextKeys
         THEN "Unknown text key"
    ELSE IF \E k \in c.schema.requiredTexts : IncomingText(r.texts, k) = ""
         THEN "Missing required text"
    ELSE IF \E id \in c.customizations : id \notin c.schema.customizations
         THEN "Unknown customization"
    ELSE "ok"

\* NotFoundException for the first two, BadRequestException for the others
RejectionKind(message) ==
    IF message \in {"Client not found", "Template not found"} THEN "NotFound"
    ELSE "BadRequest"

----------------------------------------------------------------------------
(* State *)

InitProc ==
    [pc |-> "idle", req |-> Nil, pass |-> "none", attempt |-> "primary",
     i |-> 1, base |-> Nil, bytes |-> Nil, dims |-> "unset", mask |-> Nil,
     maskPath |-> Nil, prompt |-> Nil, fallbackPrompt |-> Nil, call |-> 0,
     savedUrl |-> Nil, err |-> Nil]

InitCommon ==
    /\ template \in Templates
    /\ \E onDisk \in BOOLEAN :
          files = IF onDisk THEN TemplatePath :> TemplateImg(template.dims)
                  ELSE <<>>
    /\ db = [g \in Gens |-> [status |-> "none", outputUrl |-> Nil]]
    /\ editLog = <<>>
    /\ proc = [g \in Gens |-> InitProc]
    /\ conn = [g \in Gens |-> TRUE]
    /\ eval = Nil

Init == InitCommon /\ active = {"g1"}

Error(kind, pass, g, code) ==
    [type |-> "error", kind |-> kind, pass |-> pass, gen |-> g, code |-> code]

\* an exception leaves the try block of createFromMultipart
Throw(g, e) == proc' = [proc EXCEPT ![g].pc = "catch", ![g].err = e]

\* the storage sink: mkdir + writeFile either both succeed or raise
StorageOutcomes == {"written", "EIO"}

Write(path, content) == files' = (path :> content) @@ files

----------------------------------------------------------------------------
(* createFromMultipart *)

\* lines 52-176: validation, then the generation row is created as running
\* lines 47-176: the call is rejected, or its generation row is created
CreateFromMultipart(g, c) ==
    /\ g \in active
    /\ proc[g].pc = "idle"
    /\ IF ValidationError(c) # "ok"
       THEN /\ proc' = [proc EXCEPT ![g].pc = "rejected", ![g].req = c.dto,
                           ![g].err = Error(RejectionKind(ValidationError(c)), "none",
                                            g, ValidationError(c))]
            /\ db' = db
       ELSE /\ proc' = [proc EXCEPT ![g].pc = "readTemplate", ![g].req = c.dto]
            /\ db' = [db EXCEPT ![g].status = "running"]
    /\ UNCHANGED <<template, files, editLog, conn, active>>

Create(g) ==
    /\ \E r \in Requests : CreateFromMultipart(g, Call(r))
    /\ UNCHANGED eval

\* line 180: readFile(templateAbsPath), fail fast if missing
ReadTemplate(g) ==
    /\ proc[g].pc = "readTemplate"
    /\ IF ReadFile(TemplatePath) = NoFile
       THEN Throw(g, Error("ENOENT", "none", g, ""))
       ELSE proc' = [proc EXCEPT ![g].pc = "saveSubjects", ![g].i = 1]
    /\ UNCHANGED <<template, files, db, editLog, conn, active, eval>>

\* lines 184-197: one iteration of the subject upload loop
SaveSubject(g) ==
    /\ proc[g].pc = "saveSubjects"
    /\ proc[g].i <= Len(proc[g].req.slots)
    /\ LET slotId == proc[g].req.slots[proc[g].i] IN
       \E o \in StorageOutcomes :
          IF o = "written"
          THEN /\ Write(SubjectPath(g, slotId), Img(g, "upload", slotId, "any"))
               /\ proc' = [proc EXCEPT ![g].i = @ + 1]
          ELSE /\ Throw(g, Error("StorageError", "none", g, "subjects"))
               /\ files' = files
    /\ UNCHANGED <<template, db, editLog, conn, active, eval>>

\* lines 199-205: special templates with polygons take the masked pipeline
UseMaskPipeline == template.isSpecial /\ Len(template.polygons) # 0

Dispatch(g) ==
    /\ proc[g].pc = "saveSubjects"
    /\ proc[g].i > Len(proc[g].req.slots)
    /\ IF UseMaskPipeline
       THEN proc' = [proc EXCEPT ![g].pc = "ensureBase"]
       ELSE proc' = [proc EXCEPT ![g].pc = "editCall", ![g].pass = "generic",
                        ![g].base = TemplatePath,
                        ![g].prompt = buildGenerationPrompt(proc[g].req)]
    /\ UNCHANGED <<template, files, db, editLog, conn, active, eval>>

----------------------------------------------------------------------------
(* generateSpecialWithMasks *)

WorkingDims == "1536x1024"

\* lines 488-512: the template itself, or a fill-resized copy saved as an
\* intermediate when its dimensions differ from the working resolution
EnsureBase(g) ==
    /\ proc[g].pc = "ensureBase"
    /\ IF ReadFile(TemplatePath).dims = WorkingDims
       THEN /\ proc' = [proc EXCEPT ![g].pc = "passCheck",
                           ![g].pass = "background", ![g].base = TemplatePath]
            /\ files' = files
       ELSE \E o \in StorageOutcomes :
               IF o = "written"
               THEN /\ Write(IntermediatePath(g, "base-1536x1024"),
                             Img(g, "resized", "-", WorkingDims))
                    /\ proc' = [proc EXCEPT ![g].pc = "passCheck",
                                   ![g].pass = "background",
                                   ![g].base = IntermediatePath(g, "base-1536x1024")]
               ELSE /\ Throw(g, Error("StorageError", "none", g, "intermediate"))
                    /\ files' = files
    /\ UNCHANGED <<template, db, editLog, conn, active, eval>>

\* lines 298, 366, 434: the guard of the current pass; a pass that is not
\* applicable is stepped over
PassCheck(g) ==
    /\ proc[g].pc = "passCheck"
    /\ LET pass == proc[g].pass IN
       IF PassApplicable(pass, proc[g].req, template.polygons)
       THEN IF pass \in MaskedPasses
            THEN proc' = [proc EXCEPT ![g].pc = "readDims"]
            ELSE proc' = [proc EXCEPT ![g].pc = "savePrompt",
                            ![g].prompt = buildSpecialChangeTextPrompt(
                                             proc[g].req.texts, proc[g].req.notes)]
       ELSE IF NextPass(pass) = "none"
            THEN proc' = [proc EXCEPT ![g].pc = "finish"]
            ELSE proc' = [proc EXCEPT ![g].pass = NextPass(pass)]
    /\ UNCHANGED <<template, files, db, editLog, conn, active, eval>>

\* mutant: the dimensions read for the first masked pass are kept for the
\* later ones
ReadDims_KeepsFirst(g) ==
    /\ proc[g].pc = "readDims"
    /\ LET d == IF proc[g].dims = "unset" THEN ReadFile(proc[g].base).dims
                ELSE proc[g].dims IN
       IF InvalidDims(d)
       THEN Throw(g, Error("BadRequest", "none", g, "Failed to read image dimensions"))
       ELSE proc' = [proc EXCEPT ![g].pc = "buildMask", ![g].dims = d]
    /\ UNCHANGED <<template, files, db, editLog, conn, active, eval>>

\* lines 685-695: readImageDimensionsOrThrow(currentBaseAbsPath)
ReadDims(g) ==
    /\ proc[g].pc = "readDims"
    /\ LET d == ReadFile(proc[g].base).dims IN
       IF InvalidDims(d)
       THEN Throw(g, Error("BadRequest", "none", g, "Failed to read image dimensions"))
       ELSE proc' = [proc EXCEPT ![g].pc = "buildMask", ![g].dims = d]
    /\ UNCHANGED <<template, files, db, editLog, conn, active, eval>>

\* lines 301-306, 369-374: the mask of this pass, from the dimensions just read
BuildMask(g) ==
    /\ proc[g].pc = "buildMask"
    /\ IF InvalidDims(proc[g].dims)
       THEN Throw(g, Error("Error", "none", g, "Invalid mask dimensions"))
       ELSE proc' = [proc EXCEPT ![g].pc = "saveMask",
                        ![g].mask = buildEditMaskPng(proc[g].dims,
                                       normalizePolygons(template.polygons),
                                       proc[g].pass)]
    /\ UNCHANGED <<template, files, db, editLog, conn, active, eval>>

\* a step of the pipeline that awaits the storage sink: the write happens
\* and the handler goes on, or the sink raises and the exception propagates
SinkStep(g, path, content, next) ==
    \E o \in StorageOutcomes :
       IF o = "written"
       THEN /\ Write(path, content)
            /\ proc' = next
       ELSE /\ Throw(g, Error("StorageError", "none", g, path.kind))
            /\ files' = files

\* lines 307-316, 375-384: the mask is saved, then both prompts are built
SaveMask(g) ==
    /\ proc[g].pc = "saveMask"
    /\ LET path == IntermediatePath(g, MaskStep(proc[g].pass)) IN
       SinkStep(g, path, proc[g].mask,
                [proc EXCEPT ![g].pc = "savePrompt", ![g].maskPath = path,
                    ![g].prompt = buildSpecialPassPrompt(proc[g].pass,
                                                         proc[g].req.notes),
                    ![g].fallbackPrompt = buildSpecialPassPrompt(proc[g].pass,
                                                                 "null")])
    /\ UNCHANGED <<template, db, editLog, conn, active, eval>>

\* mutant: the fallback prompt is not persisted before the edit
SavePrompt_SkipsFallback(g) ==
    /\ proc[g].pc = "savePrompt"
    /\ SinkStep(g, IntermediatePath(g, PromptStep(proc[g].pass)), proc[g].prompt,
                [proc EXCEPT ![g].pc = "editCall", ![g].attempt = "primary"])
    /\ UNCHANGED <<template, db, editLog, conn, active, eval>>

\* lines 317-321, 385-389, 442-446
SavePrompt(g) ==
    /\ proc[g].pc = "savePrompt"
    /\ SinkStep(g, IntermediatePath(g, PromptStep(proc[g].pass)), proc[g].prompt,
                [proc EXCEPT ![g].pc = IF proc[g].pass \in MaskedPasses
                                       THEN "saveFallback" ELSE "editCall",
                             ![g].attempt = "primary"])
    /\ UNCHANGED <<template, db, editLog, conn, active, eval>>

\* lines 322-326, 390-394
SaveFallback(g) ==
    /\ proc[g].pc = "saveFallback"
    /\ SinkStep(g, IntermediatePath(g, FallbackStep(proc[g].pass)),
                proc[g].fallbackPrompt,
                [proc EXCEPT ![g].pc = "editCall", ![g].attempt = "primary"])
    /\ UNCHANGED <<template, db, editLog, conn, active, eval>>

----------------------------------------------------------------------------
(* The edit capability and runImageEditOrThrow *)

ErrorCodes == {"moderation_blocked", "server_error", ""}

\* retryOnModerationBlocked is passed for the masked passes only
HasFallback(pass) == pass \in MaskedPasses

\* mutant: the retry is tried after any error of the first call
ShouldRetry_AnyError(code, attempt, pass) ==
    /\ HasFallback(pass)
    /\ attempt = "primary"

\* lines 523-532: the one retry of runImageEditOrThrow
ShouldRetry(code, attempt, pass) ==
    /\ code = "moderation_blocked"
    /\ HasFallback(pass)
    /\ attempt = "primary"

\* mutant: the retry is called with the prompt of the first call
EditArgs_RetryKeepsPrompt(g) ==
    LET p == proc[g] IN
    [gen |-> g, pass |-> p.pass, attempt |-> p.attempt,
     basePath |-> p.base,
     base |-> ReadFile(p.base),
     mask |-> IF p.pass \in MaskedPasses THEN ReadFile(p.maskPath) ELSE NoFile,
     refs |-> IF p.pass \in MaskedPasses
              THEN <<ReadFile(SubjectPath(g, p.pass))>>
              ELSE IF p.pass = "generic"
              THEN [i \in 1..Len(p.req.slots) |->
                       ReadFile(SubjectPath(g, p.req.slots[i]))]
              ELSE <<>>,
     prompt |-> p.prompt,
     outcome |-> "pending", code |-> "", out |-> Nil]

\* the arguments generateFromTemplate is called with (lines 331-342,
\* 344-355, 399-423, 452-462, 215-232), files read at the time of the call
EditArgs(g) ==
    LET p == proc[g] IN
    [gen |-> g, pass |-> p.pass, attempt |-> p.attempt,
     basePath |-> p.base,
     base |-> ReadFile(p.base),
     mask |-> IF p.pass \in MaskedPasses THEN ReadFile(p.maskPath) ELSE NoFile,
     refs |-> IF p.pass \in MaskedPasses
              THEN <<ReadFile(SubjectPath(g, p.pass))>>
              ELSE IF p.pass = "generic"
              THEN [i \in 1..Len(p.req.slots) |->
                       ReadFile(SubjectPath(g, p.req.slots[i]))]
              ELSE <<>>,
     prompt |-> IF p.attempt = "primary" THEN p.prompt ELSE p.fallbackPrompt,
     outcome |-> "pending", code |-> "", out |-> Nil]

\* fn() or retryOnModerationBlocked() is called: the request is in flight
EditInvoke(g) ==
    /\ proc[g].pc = "editCall"
    /\ editLog' = Append(editLog, EditArgs(g))
    /\ proc' = [proc EXCEPT ![g].pc = "editPending", ![g].call = Len(editLog) + 1]
    /\ UNCHANGED <<template, files, db, conn, active, eval>>

\* the output of a successful edit: fresh bytes of this call
EditOutput(g, d) == Img(g, proc[g].pass, proc[g].attempt, d)

\* mutant: the bytes of the retry are dropped and the first error is thrown
AfterEdit_DropsRetry(g, out) ==
    IF proc[g].attempt = "fallback"
    THEN [proc EXCEPT ![g].pc = "catch",
                      ![g].err = Error("EditFailed", proc[g].pass, g,
                                       "moderation_blocked")]
    ELSE [proc EXCEPT ![g].pc = IF proc[g].pass = "generic" THEN "saveFinal"
                                ELSE "savePass",
                      ![g].bytes = out]

\* where the handler goes once the awaited edit has produced bytes
AfterEdit(g, out) ==
    [proc EXCEPT ![g].pc = IF proc[g].pass = "generic" THEN "saveFinal"
                           ELSE "savePass",
                 ![g].bytes = out]

\* the call resolves with image bytes
EditSucceeds(g) ==
    /\ proc[g].pc = "editPending"
    /\ \E d \in EditOutputDims :
          /\ editLog' = [editLog EXCEPT ![proc[g].call].outcome = "ok",
                                        ![proc[g].call].out = EditOutput(g, d)]
          /\ proc' = AfterEdit(g, EditOutput(g, d))
    /\ UNCHANGED <<template, files, db, conn, active, eval>>

\* mutant: the upstream error is rethrown as it came, without the context
EditError_NoContext(g, code) == Error("Upstream", "none", "-", code)

\* the error that leaves runImageEditOrThrow (lines 541-550), or the raw
\* upstream error on the unmasked path of createFromMultipart
EditError(g, code) ==
    IF proc[g].pass = "generic"
    THEN Error("Upstream", "none", "-", code)
    ELSE Error("EditFailed", proc[g].pass, g, code)

\* the call rejects: moderation block, any other API error, or no payload
EditFails(g) ==
    /\ proc[g].pc = "editPending"
    /\ \E code \in ErrorCodes :
          /\ editLog' = [editLog EXCEPT ![proc[g].call].outcome = "error",
                                        ![proc[g].call].code = code]
          /\ IF ShouldRetry(code, proc[g].attempt, proc[g].pass)
             THEN proc' = [proc EXCEPT ![g].pc = "editCall",
                              ![g].attempt = "fallback"]
             ELSE Throw(g, EditError(g, code))
    /\ UNCHANGED <<template, files, db, conn, active, eval>>

\* mutant: the base path is never advanced, every pass edits the first base
NextBase_Stale(pass, savedPath, currentBase) == currentBase

\* lines 362, 430: currentBaseAbsPath = saved.absPath after a masked pass;
\* the text pass, the last one, leaves it alone
NextBase(pass, savedPath, currentBase) ==
    IF pass \in MaskedPasses THEN savedPath ELSE currentBase

\* lines 357-362, 425-430, 464-468: the pass output is saved; for the
\* masked passes the saved file becomes the base of what follows
SavePass(g) ==
    /\ proc[g].pc = "savePass"
    /\ LET pass == proc[g].pass
           path == IntermediatePath(g, OutputStep(pass))
       IN  SinkStep(g, path, proc[g].bytes,
                    [proc EXCEPT ![g].pc = IF NextPass(pass) = "none"
                                           THEN "finish" ELSE "passCheck",
                                 ![g].pass = IF NextPass(pass) = "none"
                                             THEN pass ELSE NextPass(pass),
                                 ![g].base = NextBase(pass, path, @)])
    /\ UNCHANGED <<template, db, editLog, conn, active, eval>>

\* mutant: with no pass run, the untouched base is returned
Finish_ReturnsBase(g) ==
    /\ proc[g].pc = "finish"
    /\ proc' = [proc EXCEPT ![g].pc = "saveFinal",
                   ![g].bytes = IF proc[g].bytes = Nil
                                THEN ReadFile(proc[g].base) ELSE @]
    /\ UNCHANGED <<template, files, db, editLog, conn, active, eval>>

\* lines 471-485: no pass ran, or the bytes of the last pass are returned
Finish(g) ==
    /\ proc[g].pc = "finish"
    /\ IF proc[g].bytes = Nil
       THEN Throw(g, Error("NoApplicablePass", "none", g, ""))
       ELSE proc' = [proc EXCEPT ![g].pc = "saveFinal"]
    /\ UNCHANGED <<template, files, db, editLog, conn, active, eval>>

----------------------------------------------------------------------------
(* createFromMultipart: the result is stored and the record settled *)

\* lines 234-237
SaveFinal(g) ==
    /\ proc[g].pc = "saveFinal"
    /\ SinkStep(g, GenerationImagePath(g), proc[g].bytes,
                [proc EXCEPT ![g].pc = "markSucceeded",
                             ![g].savedUrl = GenerationImagePath(g)])
    /\ UNCHANGED <<template, db, editLog, conn, active, eval>>

\* lines 239-242
MarkSucceeded(g) ==
    /\ proc[g].pc = "markSucceeded"
    /\ db' = [db EXCEPT ![g] = [status |-> "succeeded",
                                outputUrl |-> proc[g].savedUrl]]
    /\ proc' = [proc EXCEPT ![g].pc = "done"]
    /\ UNCHANGED <<template, files, editLog, conn, active, eval>>

\* mutant: the catch block rethrows without touching the record
CatchStatus_Untouched == "running"

\* the status written by the catch block (lines 244-247)
CatchStatus == "failed"

\* mutant: a failed generation points at the last image it had saved
Catch_PublishesPartial(g) ==
    /\ proc[g].pc = "catch"
    /\ db' = [db EXCEPT ![g] = [status |-> "failed", outputUrl |-> proc[g].base]]
    /\ proc' = [proc EXCEPT ![g].pc = "failed"]
    /\ UNCHANGED <<template, files, editLog, conn, active, eval>>

\* lines 243-249: the record is marked failed and the error rethrown
Catch(g) ==
    /\ proc[g].pc = "catch"
    /\ db' = [db EXCEPT ![g].status = CatchStatus]
    /\ proc' = [proc EXCEPT ![g].pc = "failed"]
    /\ UNCHANGED <<template, files, editLog, conn, active, eval>>

\* the caller goes away while an edit call is pending; nothing in the
\* handler observes it (the controller returns the service's promise as is)
Disconnect(g) ==
    /\ proc[g].pc = "editPending"
    /\ conn[g]
    /\ conn' = [conn EXCEPT ![g] = FALSE]
    /\ UNCHANGED <<template, files, db, editLog, proc, active, eval>>

\* the steps of the handler after the generation row exists
Handle(g) ==
    \/ ReadTemplate(g) \/ SaveSubject(g) \/ Dispatch(g)
    \/ EnsureBase(g) \/ PassCheck(g) \/ ReadDims(g) \/ BuildMask(g)
    \/ SaveMask(g) \/ SavePrompt(g) \/ SaveFallback(g)
    \/ EditInvoke(g) \/ EditSucceeds(g) \/ EditFails(g)
    \/ SavePass(g) \/ Finish(g) \/ SaveFinal(g) \/ MarkSucceeded(g) \/ Catch(g)

Step(g) == Create(g) \/ Handle(g)

Next == \E g \in Gens : Step(g) \/ Disconnect(g)

Spec == Init /\ [][Next]_vars

\* Liveness is checked for templates that are not at the working resolution
\* (their runs go through every step of the others plus the resize) and
\* whose polygons are valid and labelled for one of the two masked passes.
LiveInit ==
    /\ Init
    /\ template.dims # WorkingDims
    /\ \A i \in DOMAIN template.polygons :
          /\ template.polygons[i].npts = 3
          /\ normalizePolygonLabel(template.polygons[i].label)
                \in {Canon("background"), Canon("main")}

\* Every await of the handler settles: storage and database calls return or
\* raise, and the edit call resolves or rejects (the API client times out).
LiveSpec == LiveInit /\ [][Next]_vars /\ \A g \in Gens : WF_vars(Step(g))

----------------------------------------------------------------------------
(* Vocabulary of the properties *)

\* the invocations of the edit capability made for generation g, in order
LogOf(g) == SelectSeq(editLog, LAMBDA e : e.gen = g)

\* the names of the passes whose edit produced bytes, in order
ExecutedPasses(g) ==
    LET ok == SelectSeq(LogOf(g), LAMBDA e : e.outcome = "ok")
    IN  [i \in 1..Len(ok) |-> ok[i].pass]

PassIndex(pass) ==
    CASE pass = "background" -> 1
      [] pass = "main" -> 2
      [] pass = "text" -> 3
      [] OTHER -> 0

Supplied(g, slot) == slot \in { proc[g].req.slots[i] : i \in DOMAIN proc[g].req.slots }

HasValidPolygon(label) ==
    \E i \in DOMAIN template.polygons :
        /\ template.polygons[i].npts >= 3
        /\ normalizePolygonLabel(template.polygons[i].label) = Canon(label)

\* the condition under which the design says a pass runs
Expected(g, pass) ==
    IF pass = "text" THEN proc[g].req.texts # <<>>
    ELSE Supplied(g, pass) /\ HasValidPolygon(pass)

ExpectedPasses(g) == SelectSeq(PassOrder, LAMBDA p : Expected(g, p))

PassArtifacts(pass) ==
    IF pass = "text" THEN {PromptStep(pass), OutputStep(pass)}
    ELSE {MaskStep(pass), PromptStep(pass), FallbackStep(pass), OutputStep(pass)}

\* something of the pass exists: an edit invocation or a persisted artifact
Trace(g, pass) ==
    \/ \E i \in DOMAIN editLog : editLog[i].gen = g /\ editLog[i].pass = pass
    \/ \E s \in PassArtifacts(pass) : IntermediatePath(g, s) \in DOMAIN files

Accepted(g) == proc[g].req # Nil /\ proc[g].pc # "rejected"

\* the handler holds the bytes the pipeline returned
Returned(g) == proc[g].pc \in {"saveFinal", "markSucceeded", "done"}

InitBase(g) ==
    IF template.dims = WorkingDims THEN TemplateImg(template.dims)
    ELSE Img(g, "resized", "-", WorkingDims)

\* l[i] is the most recent invocation before l[j] that produced bytes
LastOkBefore(l, i, j) ==
    /\ i < j
    /\ l[i].outcome = "ok"
    /\ \A k \in DOMAIN l : i < k /\ k < j => l[k].outcome # "ok"

----------------------------------------------------------------------------
(* C1: the edits of one generation are made in the order background, main,
   text; an invocation is made only after every earlier one has returned,
   its base is the output of the pass executed before it, no pass produces
   bytes twice, and with all three inputs and polygons present a completed
   pipeline executed exactly <<background, main, text>>. *)
C1_PassOrder ==
    \A g \in Gens :
       LET l == LogOf(g) IN
       /\ \A i, j \in DOMAIN l :
             (i < j /\ l[j].pass # "generic") =>
                /\ PassIndex(l[i].pass) <= PassIndex(l[j].pass)
                /\ l[i].outcome # "pending"
                /\ (l[i].pass = l[j].pass => l[i].outcome # "ok")
                /\ (LastOkBefore(l, i, j) => l[j].base = l[i].out)
       /\ ( /\ Accepted(g) /\ UseMaskPipeline /\ Returned(g)
            /\ \A p \in {"background", "main", "text"} : Expected(g, p) )
          => ExecutedPasses(g) = PassOrder

C1_Witness ==
    \E g \in Gens : proc[g].pc = "done" /\ ExecutedPasses(g) = PassOrder

(* C2: a pass leaves a trace (an edit, a mask, a prompt, an output) only if
   its input was supplied and, for background and main, a polygon with that
   normalized label exists; a completed pipeline executed exactly the passes
   whose condition holds, in order, so a skipped pass blocks no later one. *)
C2_RunsIffApplicable ==
    \A g \in Gens :
       Accepted(g) =>
          /\ \A p \in {"background", "main", "text"} :
                Trace(g, p) => (UseMaskPipeline /\ Expected(g, p))
          /\ (UseMaskPipeline /\ Returned(g))
                => ExecutedPasses(g) = ExpectedPasses(g)

C2_Witness ==
    \E g \in Gens :
       /\ proc[g].pc = "done"
       /\ ~Supplied(g, "main") /\ HasValidPolygon("main")
       /\ ExecutedPasses(g) = <<"background", "text">>
       /\ ~Trace(g, "main")

(* C3: every edit of the masked pipeline is made on the output of the most
   recent pass that produced bytes, or on the initial base (the template, or
   its 1536x1024 resize) when none did; the bytes the pipeline returns are
   the output of the last executed pass. *)
C3_BaseThreading ==
    \A g \in Gens :
       LET l == LogOf(g) IN
       /\ \A j \in DOMAIN l :
             l[j].pass # "generic" =>
                /\ \A i \in DOMAIN l : LastOkBefore(l, i, j) => l[j].base = l[i].out
                /\ (\A i \in DOMAIN l : i < j => l[i].outcome # "ok")
                      => l[j].base = InitBase(g)
       /\ Returned(g) =>
             \E i \in DOMAIN l :
                /\ l[i].outcome = "ok"
                /\ \A k \in DOMAIN l : k > i => l[k].outcome # "ok"
                /\ proc[g].bytes = l[i].out

C3_Witness ==
    \E g \in Gens :
       /\ proc[g].pc = "done"
       /\ ExecutedPasses(g) = <<"background">>
       /\ template.dims # WorkingDims
       /\ \E i \in DOMAIN editLog :
             /\ editLog[i].pass = "background" /\ editLog[i].outcome = "ok"
             /\ proc[g].bytes = editLog[i].out
             /\ editLog[i].base = Img(g, "resized", "-", WorkingDims)

(* C4: when no pass is applicable the masked pipeline invokes no edit and
   ends in an explicit error, never in returned bytes; and bytes are never
   returned unless some edit invocation succeeded. *)
C4_NoApplicablePass ==
    \A g \in Gens :
       /\ Returned(g) => \E i \in DOMAIN editLog :
                            editLog[i].gen = g /\ editLog[i].outcome = "ok"
       /\ ( /\ Accepted(g) /\ UseMaskPipeline
            /\ \A p \in {"background", "main", "text"} : ~Expected(g, p) )
          => /\ LogOf(g) = <<>>
             /\ ~Returned(g)
             /\ proc[g].pc = "failed" =>
                   proc[g].err.kind \in {"NoApplicablePass", "StorageError", "ENOENT"}
             /\ (proc[g].pc = "failed" /\ proc[g].base # Nil) =>
                   proc[g].err.kind = "NoApplicablePass"

C4_Witness ==
    \E g \in Gens :
       /\ proc[g].pc = "failed"
       /\ proc[g].err.kind = "NoApplicablePass"
       /\ Supplied(g, "background")
       /\ LogOf(g) = <<>>

\* l[i] was blocked by moderation and its fallback l[j] produced bytes
Recovered(l, i, j) ==
    /\ i < j
    /\ l[i].pass = l[j].pass
    /\ l[i].attempt = "primary" /\ l[i].outcome = "error"
    /\ l[i].code = "moderation_blocked"
    /\ l[j].attempt = "fallback" /\ l[j].outcome = "ok"

(* C5: when the first edit of a background or main pass is blocked by
   moderation and the retry with the fallback prompt succeeds, the pass
   result (the bytes held, the saved pass output, the base of the following
   edits) is the retry's output, no edit error of that pass reaches the
   caller, and a completed pipeline has executed every applicable pass. *)
C5_FallbackRecovers ==
    \A g \in Gens :
       LET l == LogOf(g) IN
       \A i, j \in DOMAIN l :
          Recovered(l, i, j) =>
             LET p == l[j].pass
                 saved == IntermediatePath(g, OutputStep(p))
             IN  /\ p \in MaskedPasses
                 /\ (proc[g].pc = "savePass" /\ proc[g].pass = p)
                       => proc[g].bytes = l[j].out
                 /\ saved \in DOMAIN files => files[saved] = l[j].out
                 /\ \A k \in DOMAIN l :
                       LastOkBefore(l, j, k) => l[k].base = l[j].out
                 /\ ~(proc[g].err # Nil /\ proc[g].err.kind = "EditFailed"
                        /\ proc[g].err.pass = p)
                 /\ (j = Len(l) /\ proc[g].pc \in {"catch", "failed"})
                       => proc[g].err.kind \in {"StorageError", "BadRequest", "Error"}
                 /\ Returned(g) => ExecutedPasses(g) = ExpectedPasses(g)

C5_Witness ==
    \E g \in Gens :
       LET l == LogOf(g) IN
       /\ proc[g].pc = "done"
       /\ ExecutedPasses(g) = PassOrder
       /\ Len(l) = 4
       /\ Recovered(l, 1, 2)
       /\ l[3].base = l[2].out

(* C6: a pass invokes the edit at most twice; a second invocation exists
   only right after a first one that was blocked by moderation, only for a
   pass with a fallback, and carries the persisted fallback prompt (without
   the user's notes); any other error, and any failed retry, is the last
   invocation of the generation; the text pass is invoked at most once. *)
C6_AtMostOneRetry ==
    \A g \in Gens :
       LET l == LogOf(g) IN
       /\ \A p \in {"background", "main", "text", "generic"} :
             Cardinality({ i \in DOMAIN l : l[i].pass = p }) <= 2
       /\ \A i, j \in DOMAIN l :
             (i < j /\ l[i].pass = l[j].pass) =>
                /\ j = i + 1
                /\ l[i].pass \in MaskedPasses
                /\ l[i].attempt = "primary" /\ l[i].outcome = "error"
                /\ l[i].code = "moderation_blocked"
                /\ l[j].attempt = "fallback"
                /\ l[j].prompt = ReadFile(IntermediatePath(g, FallbackStep(l[i].pass)))
                /\ l[j].prompt.notes = "null"
                /\ l[j].prompt.kind = l[i].pass
       /\ \A i \in DOMAIN l :
             /\ (l[i].outcome = "error" /\ l[i].code # "moderation_blocked")
                   => i = Len(l)
             /\ (l[i].outcome = "error" /\ l[i].attempt = "fallback")
                   => i = Len(l)
             /\ l[i].pass \in {"text", "generic"}
                   => /\ l[i].attempt = "primary"
                      /\ l[i].outcome = "error" => i = Len(l)
             /\ l[i].attempt = "primary" => l[i].prompt.notes = proc[g].req.notes

C6_Witness ==
    \E g \in Gens :
       LET l == LogOf(g) IN
       /\ proc[g].pc = "failed"
       /\ Len(l) = 2
       /\ l[1].code = "moderation_blocked" /\ l[2].attempt = "fallback"
       /\ l[2].outcome = "error" /\ l[2].code = "moderation_blocked"
       /\ l[2].prompt # l[1].prompt

\* the edit failed and no retry is left for it
Terminal(e) ==
    /\ e.outcome = "error"
    /\ ~(e.code = "moderation_blocked" /\ e.attempt = "primary"
           /\ e.pass \in MaskedPasses)

(* C7: when the edit of a pass fails with no retry left, it is the last
   edit of the generation, the handler is in its catch block or has
   rethrown, the error names the failing pass and the generation, no final
   image is stored or exposed, and the record is failed once rethrown. *)
C7_FailureTerminates ==
    \A g \in Gens :
       LET l == LogOf(g) IN
       \A i \in DOMAIN l :
          (Terminal(l[i]) /\ l[i].pass # "generic") =>
             /\ i = Len(l)
             /\ proc[g].pc \in {"catch", "failed"}
             /\ proc[g].err.kind = "EditFailed"
             /\ proc[g].err.pass = l[i].pass
             /\ proc[g].err.gen = g
             /\ proc[g].err.code = l[i].code
             /\ GenerationImagePath(g) \notin DOMAIN files
             /\ db[g].outputUrl = Nil
             /\ db[g].status = IF proc[g].pc = "failed" THEN "failed" ELSE "running"

C7_Witness ==
    \E g \in Gens :
       /\ proc[g].pc = "failed"
       /\ db[g].status = "failed"
       /\ ExecutedPasses(g) = <<"background">>
       /\ proc[g].err.kind = "EditFailed" /\ proc[g].err.pass = "main"
       /\ Expected(g, "text")

(* C8: every generation record that is running is eventually succeeded or
   failed, also when the caller disconnects while an edit is pending. *)
C8_EventuallySettled ==
    \A g \in Gens :
       (db[g].status = "running") ~> (db[g].status \in {"succeeded", "failed"})

C8_Witness ==
    \E g \in Gens :
       /\ ~conn[g]
       /\ db[g].status = "failed"
       /\ proc[g].err.kind = "StorageError"
       /\ LogOf(g) # <<>>

(* C9: a record has an output URL only when it is succeeded, and the URL is
   the stored final image, whose content is the bytes the pipeline returned
   (the output of the last executed edit); a failed record has no URL, and
   no URL ever refers to an intermediate artifact. *)
C9_OutputOnlyOnSuccess ==
    \A g \in Gens :
       /\ db[g].status = "failed" => db[g].outputUrl = Nil
       /\ db[g].outputUrl # Nil =>
             /\ db[g].status = "succeeded"
             /\ db[g].outputUrl = GenerationImagePath(g)
             /\ ReadFile(db[g].outputUrl) = proc[g].bytes
             /\ \E i \in DOMAIN editLog :
                   /\ editLog[i].gen = g /\ editLog[i].outcome = "ok"
                   /\ \A k \in DOMAIN editLog :
                         (k > i /\ editLog[k].gen = g) => editLog[k].outcome # "ok"
                   /\ ReadFile(db[g].outputUrl) = editLog[i].out

C9_Witness ==
    \E g \in Gens :
       /\ db[g].status = "failed"
       /\ db[g].outputUrl = Nil
       /\ IntermediatePath(g, "pass-1-background") \in DOMAIN files
       /\ IntermediatePath(g, "pass-2-main") \in DOMAIN files

(* C10: a failure of the intermediate artifact sink does not fail the
   pipeline: no generation ends in its catch block because saving a mask,
   a prompt or a pass output raised. *)
C10_SinkFailureTolerated ==
    \A g \in Gens :
       ~( /\ proc[g].pc \in {"catch", "failed"}
          /\ proc[g].pass \in {"background", "main", "text"}
          /\ proc[g].err.kind = "StorageError"
          /\ proc[g].err.code = "intermediate" )

(* C11: for a special template, a request with a background image, no main
   image and no text, and no valid polygon labelled background (a polygon
   list that is empty included): no edit is invoked, no bytes are returned,
   and once the pipeline has its base the generation fails with
   NoApplicablePass and is marked failed. *)
C11_NoMatchingBackground ==
    \A g \in Gens :
       ( /\ Accepted(g) /\ template.isSpecial
         /\ Supplied(g, "background") /\ ~Supplied(g, "main")
         /\ proc[g].req.texts = <<>>
         /\ ~HasValidPolygon("background") )
       => /\ LogOf(g) = <<>>
          /\ ~Returned(g)
          /\ db[g].status # "succeeded"
          /\ (proc[g].pc = "failed" /\ proc[g].base # Nil)
                => /\ proc[g].err.kind = "NoApplicablePass"
                   /\ db[g].status = "failed"

----------------------------------------------------------------------------
(* The mask builder: buildEditMaskPng and fillPolygonAlpha *)

\* the alpha channel of the raster: protected, or editable
Protected == 255
Editable == 0

\* polygons of at most MaxVertices points
MaxVertices == 4

Pixels(width, height) == (0..(width - 1)) \X (0..(height - 1))

\* Math.min(max, Math.max(min, n | 0)) on a finite integer
clampInt(n, min, max) ==
    LET lo == IF n < min THEN min ELSE n
    IN  IF lo > max THEN max ELSE lo

\* Math.round of the fraction num / den (den > 0): halves go up
MathRound(num, den) == (2 * num + den) \div (2 * den)

\* lines 31-36: percentage to pixel coordinate, clamped to the raster
PixelOf(pct, dim) == clampInt(MathRound(pct * dim, 100), 0, dim - 1)

ToPixels(points, width, height) ==
    [i \in DOMAIN points |->
        [x |-> PixelOf(points[i].xPct, width),
         y |-> PixelOf(points[i].yPct, height)]]

\* a fraction <<num, den>> with den > 0
Frac(num, den) == IF den < 0 THEN <<-num, -den>> ELSE <<num, den>>
FracLess(p, q) == p[1] * q[2] < q[1] * p[2]
MathCeil(r) == -((-r[1]) \div r[2])
MathFloor(r) == r[1] \div r[2]

MinOf(S) == CHOOSE m \in S : \A n \in S : m <= n
MaxOf(S) == CHOOSE m \in S : \A n \in S : n <= m

\* mutant: the edge test is closed at both ends, so a scanline through a
\* vertex counts it once for each of its two edges
EdgeCrosses_Closed(a, b, y) ==
    /\ a.y # b.y
    /\ ~(y < MinOf({a.y, b.y}) \/ y > MaxOf({a.y, b.y}))

\* lines 166-172: horizontal edges are skipped, the others count for the
\* scanlines yMin <= y < yMax
EdgeCrosses(a, b, y) ==
    /\ a.y # b.y
    /\ ~(y < MinOf({a.y, b.y}) \/ y >= MaxOf({a.y, b.y}))

\* lines 174-175: x = a.x + t * (b.x - a.x) with t = (y - a.y) / (b.y - a.y)
IntersectX(a, b, y) ==
    Frac(a.x * (b.y - a.y) + (y - a.y) * (b.x - a.x), b.y - a.y)

\* lines 161-180: the x-intersections of scanline y, sorted ascending
Intersections(points, y) ==
    LET n == Len(points)
        b(i) == points[(i % n) + 1]
        hit == SelectSeq([i \in 1..n |-> i],
                         LAMBDA i : EdgeCrosses(points[i], b(i), y))
    IN  SortSeq([k \in 1..Len(hit) |-> IntersectX(points[hit[k]], b(hit[k]), y)],
                FracLess)

\* mutant: the spans are half-open on the right, as the rows are below
RowSpan_ExcludesRight(points, y, width) ==
    LET xs == Intersections(points, y) IN
    IF Len(xs) < 2 THEN {}
    ELSE UNION { LET x0 == clampInt(MathCeil(xs[k]), 0, width - 1)
                     x1 == clampInt(MathFloor(xs[k + 1]), 0, width - 1)
                 IN  x0..(x1 - 1) :
                 k \in { j \in 1..(Len(xs) - 1) : j % 2 = 1 } }

\* lines 179-189: the pixels of row y between successive pairs
RowSpan(points, y, width) ==
    LET xs == Intersections(points, y) IN
    IF Len(xs) < 2 THEN {}
    ELSE UNION { LET x0 == clampInt(MathCeil(xs[k]), 0, width - 1)
                     x1 == clampInt(MathFloor(xs[k + 1]), 0, width - 1)
                 IN  x0..x1 :
                 k \in { j \in 1..(Len(xs) - 1) : j % 2 = 1 } }

\* lines 160-190: the pixels the scanlines minY..maxY of the polygon write
FillSpans(width, height, points) ==
    LET ys == { points[i].y : i \in DOMAIN points }
        minY == clampInt(MinOf(ys), 0, height - 1)
        maxY == clampInt(MaxOf(ys), 0, height - 1)
    IN  UNION { { <<x, y>> : x \in RowSpan(points, y, width) } : y \in minY..maxY }

\* mutant: the fill repaints the whole buffer, protecting what it leaves out
fillPolygonAlpha_Repaints(rgba, width, height, points, alpha) ==
    LET written == FillSpans(width, height, points)
    IN  [p \in DOMAIN rgba |-> IF p \in written THEN alpha ELSE Protected]

\* lines 140-191
fillPolygonAlpha(rgba, width, height, points, alpha) ==
    LET written == FillSpans(width, height, points)
    IN  [p \in DOMAIN rgba |-> IF p \in written THEN alpha ELSE rgba[p]]

\* String(p.label ?? '').trim()
Trim(l) == [l EXCEPT !.pad = FALSE]

\* the predicate the pipeline passes: l.trim().toLowerCase() === target
includeLabel(target, l) == TrimLower(l) = Canon(target)

\* a JavaScript number, or undefined
Undefined == <<>>
Num(n) == <<n>>

\* mutant: only a missing or zero size is refused, a negative one is not
InvalidSize_NegativeAccepted(width, height) ==
    \/ width = Undefined \/ width[1] = 0
    \/ height = Undefined \/ height[1] = 0

\* `!width || !height || width <= 0 || height <= 0`
InvalidSize(width, height) ==
    \/ width = Undefined \/ width[1] = 0
    \/ height = Undefined \/ height[1] = 0
    \/ width[1] <= 0 \/ height[1] <= 0

\* lines 28-41: the polygons are filled one after the other, in list order
RECURSIVE FillPolygons(_, _, _, _, _, _)
FillPolygons(rgba, width, height, polygons, target, i) ==
    IF i > Len(polygons) THEN rgba
    ELSE LET p == polygons[i]
             pts == ToPixels(p.points, width, height)
         IN  IF ~includeLabel(target, Trim(p.label)) \/ Len(pts) < 3
             THEN FillPolygons(rgba, width, height, polygons, target, i + 1)
             ELSE FillPolygons(fillPolygonAlpha(rgba, width, height, pts, Editable),
                               width, height, polygons, target, i + 1)

\* lines 8-47: the raster buildEditMaskPng encodes as PNG, or its error;
\* allocated tells whether the buffer was allocated
buildEditMaskPng_rgba(width, height, polygons, target) ==
    IF InvalidSize(width, height)
    THEN [error |-> "Invalid mask dimensions", allocated |-> FALSE, rgba |-> Nil]
    ELSE [error |-> "", allocated |-> TRUE,
          rgba |-> FillPolygons([p \in Pixels(width[1], height[1]) |-> Protected],
                                width[1], height[1], polygons, target, 1)]

----------------------------------------------------------------------------
(* The mask builder: buildTextGlyphEditMaskPng *)

GlyphPadPx == 6
DilateRadius == 3

\* lines 198-223: the padded bounding box of the polygon, inside the raster
polygonBounds(points, width, height, padPx) ==
    LET xs == { points[i].x : i \in DOMAIN points }
        ys == { points[i].y : i \in DOMAIN points }
        left == clampInt(MinOf(xs) - padPx, 0, width - 1)
        top == clampInt(MinOf(ys) - padPx, 0, height - 1)
        right == clampInt(MaxOf(xs) + padPx, 0, width - 1)
        bottom == clampInt(MaxOf(ys) + padPx, 0, height - 1)
    IN  [left |-> left, top |-> top,
         boxW |-> MaxOf({1, right - left + 1}),
         boxH |-> MaxOf({1, bottom - top + 1})]

\* lines 225-254: a pixel is on when a pixel within the radius is
dilate(src, width, height, radius) ==
    IF radius <= 0 THEN src
    ELSE { p \in Pixels(width, height) :
             \E q \in src :
                /\ q[1] \in MaxOf({0, p[1] - radius})..MinOf({width - 1, p[1] + radius})
                /\ q[2] \in MaxOf({0, p[2] - radius})..MinOf({height - 1, p[2] + radius}) }

\* mutant: the glyph neighbourhood is opened, inside the polygon or not
GlyphIntersect_OpensGrown(rgba, bounds, grown) ==
    [p \in DOMAIN rgba |->
        LET x == p[1] - bounds.left
            y == p[2] - bounds.top
        IN  IF x \in 0..(bounds.boxW - 1) /\ y \in 0..(bounds.boxH - 1)
            THEN IF <<x, y>> \in grown THEN Editable ELSE Protected
            ELSE rgba[p]]

\* lines 124-132: inside the box, an editable pixel outside the grown edge
\* mask is protected again
GlyphIntersect(rgba, bounds, grown) ==
    [p \in DOMAIN rgba |->
        LET x == p[1] - bounds.left
            y == p[2] - bounds.top
        IN  IF /\ x \in 0..(bounds.boxW - 1) /\ y \in 0..(bounds.boxH - 1)
               /\ <<x, y>> \notin grown
               /\ rgba[p] = Editable
            THEN Protected ELSE rgba[p]]

\* lines 106-118: the pixels of the box whose difference to the blurred
\* image reaches the threshold; hiFreq is where the image has such detail
EdgeMask(bounds, hiFreq) ==
    { q \in Pixels(bounds.boxW, bounds.boxH) :
        <<bounds.left + q[1], bounds.top + q[2]>> \in hiFreq }

\* lines 72-133: fill, then shrink to the glyph neighbourhood, per polygon;
\* edges[i] is the detail the detector finds for the i-th polygon
RECURSIVE RefinePolygons(_, _, _, _, _, _, _)
RefinePolygons(rgba, width, height, polygons, target, edges, i) ==
    IF i > Len(polygons) THEN rgba
    ELSE LET p == polygons[i]
             pts == ToPixels(p.points, width, height)
             bounds == polygonBounds(pts, width, height, GlyphPadPx)
             grown == dilate(EdgeMask(bounds, edges[i]), bounds.boxW,
                             bounds.boxH, DilateRadius)
         IN  IF ~includeLabel(target, Trim(p.label)) \/ Len(pts) < 3
             THEN RefinePolygons(rgba, width, height, polygons, target, edges, i + 1)
             ELSE RefinePolygons(
                     GlyphIntersect(fillPolygonAlpha(rgba, width, height, pts, Editable),
                                    bounds, grown),
                     width, height, polygons, target, edges, i + 1)

\* lines 49-138: the raster buildTextGlyphEditMaskPng encodes as PNG, or
\* its error
buildTextGlyphEditMaskPng_rgba(width, height, polygons, target, edges) ==
    IF InvalidSize(width, height)
    THEN [error |-> "Invalid mask dimensions", allocated |-> FALSE, rgba |-> Nil]
    ELSE [error |-> "", allocated |-> TRUE,
          rgba |-> RefinePolygons([p \in Pixels(width[1], height[1]) |-> Protected],
                                  width[1], height[1], polygons, target, edges, 1)]

----------------------------------------------------------------------------
(* The mask builder applied to bounded inputs *)

PctValues == {0, 50, 100}
PctPoints == [xPct : PctValues, yPct : PctValues]

Shapes(n) == [1..n -> PctPoints]

Poly(label, points) == [label |-> label, points |-> points]
P(x, y) == [xPct |-> x, yPct |-> y]

\* a dart (concave), a square, a sliver that rounds to a line, a segment
Dart == <<P(0, 0), P(50, 50), P(100, 0), P(50, 100)>>
Square == <<P(0, 0), P(50, 0), P(50, 50), P(0, 50)>>
Companions == {Dart, Square, <<P(50, 0), P(100, 50), P(50, 100)>>,
               <<P(0, 0), P(100, 100)>>}

RasterDims == {<<6, 6>>, <<7, 5>>}

SizeValues == {Undefined, Num(0), Num(-1), Num(6)}

MaskCall(fn, width, height, polygons) ==
    [fn |-> fn, width |-> width, height |-> height, polygons |-> polygons,
     target |-> "background", edges |-> [i \in DOMAIN polygons |-> {}],
     done |-> FALSE, result |-> Nil]

\* the list of points starts at its least point (by x, then y)
StartsLow(s) ==
    \A i \in DOMAIN s :
       \/ s[1].xPct < s[i].xPct
       \/ s[1].xPct = s[i].xPct /\ s[1].yPct <= s[i].yPct

\* one polygon: every list of three points, and the longer lists from their
\* least point on
OneShape(fn) ==
    \E d \in RasterDims, n \in 3..MaxVertices : \E s \in Shapes(n) :
       /\ n > 3 => StartsLow(s)
       /\ eval = MaskCall(fn, Num(d[1]), Num(d[2]),
                          <<Poly(Canon("background"), s)>>)

\* two polygons in both orders, the second matching the predicate or not
TwoShapes(fn) ==
    \E a \in Shapes(3), b \in Companions,
       m \in {L("background", TRUE, TRUE), Canon("main")}, swap \in BOOLEAN :
       /\ StartsLow(a)
       /\ eval = MaskCall(fn, Num(7), Num(5),
                          IF swap THEN <<Poly(m, b), Poly(Canon("background"), a)>>
                          ELSE <<Poly(Canon("background"), a), Poly(m, b)>>)

\* sizes that are not sizes
AnySize(fn) ==
    \E w \in SizeValues, h \in SizeValues, s \in {Dart, Square} :
       eval = MaskCall(fn, w, h, <<Poly(Canon("background"), s)>>)

\* no request is being handled while a helper is evaluated on its own
pipeVars == <<template, files, db, editLog, proc, conn, active>>

IdlePipeline ==
    /\ template = [isSpecial |-> TRUE, hasImage |-> TRUE, polygons |-> <<>>,
                   dims |-> WorkingDims]
    /\ files = <<>>
    /\ db = [g \in Gens |-> [status |-> "none", outputUrl |-> Nil]]
    /\ editLog = <<>>
    /\ proc = [g \in Gens |-> InitProc]
    /\ conn = [g \in Gens |-> TRUE]
    /\ active = {}

\* where the image has high-frequency detail: nowhere, or around one pixel
EdgeChoices == { {}, {<<1, 1>>}, {<<3, 2>>}, {<<6, 4>>} }

\* the text mask of one polygon, and of two of the companions
GlyphInputs ==
    \/ \E n \in 3..MaxVertices : \E s \in Shapes(n), e \in EdgeChoices :
          /\ StartsLow(s)
          /\ eval = [MaskCall("buildTextGlyphEditMaskPng", Num(7), Num(5),
                              <<Poly(Canon("background"), s)>>)
                        EXCEPT !.edges = <<e>>]
    \/ \E a \in Companions, b \in Companions,
          m \in {L("background", TRUE, TRUE), Canon("main")},
          e1 \in EdgeChoices, e2 \in EdgeChoices :
          eval = [MaskCall("buildTextGlyphEditMaskPng", Num(7), Num(5),
                           <<Poly(Canon("background"), a), Poly(m, b)>>)
                     EXCEPT !.edges = <<e1, e2>>]

\* two text blocks on a 20x4 image whose padded boxes overlap in part: the
\* left block covers columns 0..6 (box 0..12), the right one columns 10..12
\* (box 4..18); the image has detail at one pixel, or at none
LeftBlock == <<P(0, 0), P(30, 0), P(30, 100), P(0, 100)>>
RightBlock == <<P(50, 0), P(60, 0), P(60, 100), P(50, 100)>>
DetailChoices == { {}, {<<2, 1>>}, {<<5, 1>>}, {<<11, 2>>}, {<<2, 1>>, <<11, 2>>} }

OverlappingBoxes ==
    \E detail \in DetailChoices, leftFirst \in BOOLEAN, both \in BOOLEAN :
       LET left == Poly(Canon("background"), LeftBlock)
           right == Poly(Canon("background"), RightBlock)
           polygons == IF ~both THEN (IF leftFirst THEN <<left>> ELSE <<right>>)
                       ELSE IF leftFirst THEN <<left, right>> ELSE <<right, left>>
       IN  eval = [MaskCall("buildTextGlyphEditMaskPng", Num(20), Num(4), polygons)
                      EXCEPT !.edges = [i \in DOMAIN polygons |-> detail]]

MaskInit ==
    /\ IdlePipeline
    /\ \/ OneShape("buildEditMaskPng")
       \/ TwoShapes("buildEditMaskPng")
       \/ AnySize("buildEditMaskPng")
       \/ AnySize("buildTextGlyphEditMaskPng")
       \/ GlyphInputs
       \/ OverlappingBoxes

\* buildEditMaskPng is called on the arguments and returns or throws
BuildEditMask ==
    /\ eval.fn = "buildEditMaskPng"
    /\ ~eval.done
    /\ eval' = [eval EXCEPT !.done = TRUE,
                            !.result = buildEditMaskPng_rgba(eval.width, eval.height,
                                           eval.polygons, eval.target)]
    /\ UNCHANGED pipeVars

\* buildTextGlyphEditMaskPng is called on the arguments and returns or throws
BuildTextGlyphMask ==
    /\ eval.fn = "buildTextGlyphEditMaskPng"
    /\ ~eval.done
    /\ eval' = [eval EXCEPT !.done = TRUE,
                            !.result = buildTextGlyphEditMaskPng_rgba(eval.width,
                                           eval.height, eval.polygons, eval.target,
                                           eval.edges)]
    /\ UNCHANGED pipeVars

MaskNext == BuildEditMask \/ BuildTextGlyphMask

MaskSpec == MaskInit /\ [][MaskNext]_vars

----------------------------------------------------------------------------
(* Vocabulary of the mask properties: plane geometry on pixel coordinates,
   a pixel being the point at its integer coordinates *)

Cross(a, b, p) == (b.x - a.x) * (p.y - a.y) - (b.y - a.y) * (p.x - a.x)

Between(u, v, w) == (u <= v /\ v <= w) \/ (w <= v /\ v <= u)

OnSegment(p, a, b) ==
    /\ Cross(a, b, p) = 0
    /\ Between(a.x, p.x, b.x)
    /\ Between(a.y, p.y, b.y)

Succ(points, i) == points[(i % Len(points)) + 1]

OnBoundary(p, points) ==
    \E i \in DOMAIN points : OnSegment(p, points[i], Succ(points, i))

\* the edge from a to b passes strictly to the right of p, at p's height
RightOf(p, a, b) ==
    /\ (a.y > p.y) # (b.y > p.y)
    /\ IF b.y > a.y
       THEN (p.x - a.x) * (b.y - a.y) < (p.y - a.y) * (b.x - a.x)
       ELSE (p.x - a.x) * (b.y - a.y) > (p.y - a.y) * (b.x - a.x)

\* the number of edges a ray from p towards +x crosses
RayCrossings(p, points) ==
    Cardinality({ i \in DOMAIN points : RightOf(p, points[i], Succ(points, i)) })

StrictlyInside(p, points) ==
    ~OnBoundary(p, points) /\ RayCrossings(p, points) % 2 = 1

StrictlyOutside(p, points) ==
    ~OnBoundary(p, points) /\ RayCrossings(p, points) % 2 = 0

\* the segments a-b and c-d have a point in common
SegmentsMeet(a, b, c, d) ==
    \/ OnSegment(a, c, d) \/ OnSegment(b, c, d)
    \/ OnSegment(c, a, b) \/ OnSegment(d, a, b)
    \/ /\ Cross(a, b, c) * Cross(a, b, d) < 0
       /\ Cross(c, d, a) * Cross(c, d, b) < 0

\* a simple polygon: distinct vertices, no vertex on another edge, and no
\* two edges crossing
IsSimplePolygon(points) ==
    LET n == Len(points) IN
    /\ n >= 3
    /\ \A i, j \in 1..n : i # j => points[i] # points[j]
    /\ \A i, j \in 1..n :
          (j # i /\ j # (i % n) + 1) => ~OnSegment(points[j], points[i], Succ(points, i))
    /\ \A i, j \in 1..n :
          (i < j /\ j # (i % n) + 1 /\ i # (j % n) + 1)
             => ~SegmentsMeet(points[i], Succ(points, i), points[j], Succ(points, j))

AsPoint(px) == [x |-> px[1], y |-> px[2]]

\* the pixel polygons of the polygons the predicate accepts
MatchingPolygons(e) ==
    LET kept == SelectSeq(e.polygons,
                          LAMBDA p : includeLabel(e.target, Trim(p.label))
                                     /\ Len(p.points) >= 3)
    IN  [i \in DOMAIN kept |-> ToPixels(kept[i].points, e.width[1], e.height[1])]

Built(fn) == eval.fn = fn /\ eval.done /\ eval.result.error = ""

EditableSet(rgba) == { p \in DOMAIN rgba : rgba[p] = Editable }

(* C12: in the raster buildEditMaskPng returns, every pixel strictly inside
   a simple polygon (convex or concave, at least 3 vertices) accepted by the
   label predicate is editable, every pixel strictly outside all accepted
   polygons is protected, and the polygons the predicate rejects change
   nothing: the raster is the one built from the accepted polygons alone. *)
C12_RasterFill ==
    Built("buildEditMaskPng") =>
       LET m == MatchingPolygons(eval)
           rgba == eval.result.rgba
       IN  /\ DOMAIN rgba = Pixels(eval.width[1], eval.height[1])
           /\ \A i \in DOMAIN m :
                 IsSimplePolygon(m[i]) =>
                    \A px \in DOMAIN rgba :
                       StrictlyInside(AsPoint(px), m[i]) => rgba[px] = Editable
           /\ \A px \in DOMAIN rgba :
                 (\A i \in DOMAIN m : StrictlyOutside(AsPoint(px), m[i]))
                    => rgba[px] = Protected
           /\ rgba = buildEditMaskPng_rgba(eval.width, eval.height,
                        SelectSeq(eval.polygons,
                                  LAMBDA p : includeLabel(eval.target, Trim(p.label))),
                        eval.target).rgba

\* the dart: pixels strictly inside it are editable, the pixels of its
\* notch are protected
C12_Witness ==
    /\ Built("buildEditMaskPng")
    /\ eval.polygons = <<Poly(Canon("background"), Dart)>>
    /\ LET d == ToPixels(Dart, eval.width[1], eval.height[1]) IN
       /\ IsSimplePolygon(d)
       /\ \E px \in DOMAIN eval.result.rgba :
             StrictlyInside(AsPoint(px), d) /\ eval.result.rgba[px] = Editable
       /\ \E px \in DOMAIN eval.result.rgba :
             /\ StrictlyOutside(AsPoint(px), d)
             /\ px[2] < d[2].y /\ px[1] = d[2].x
             /\ eval.result.rgba[px] = Protected

\* the editable pixels of the raster built from the polygons ps alone
EditableOf(e, ps) ==
    EditableSet(buildEditMaskPng_rgba(e.width, e.height, ps, e.target).rgba)

BothAccepted(e) ==
    /\ Len(e.polygons) = 2
    /\ \A i \in 1..2 : includeLabel(e.target, Trim(e.polygons[i].label))

(* C13: the raster built from two polygons A and B that the predicate both
   accepts has as editable pixels exactly the union of the editable pixels
   of the raster built from A alone and of the raster built from B alone,
   and the same ones when the two are listed in the other order. *)
C13_MaskUnion ==
    (Built("buildEditMaskPng") /\ BothAccepted(eval)) =>
       LET A == eval.polygons[1]
           B == eval.polygons[2]
       IN  /\ EditableSet(eval.result.rgba)
                 = EditableOf(eval, <<A>>) \cup EditableOf(eval, <<B>>)
           /\ EditableSet(eval.result.rgba) = EditableOf(eval, <<B, A>>)

\* two overlapping polygons, neither covering the other
C13_Witness ==
    /\ Built("buildEditMaskPng") /\ BothAccepted(eval)
    /\ LET a == EditableOf(eval, <<eval.polygons[1]>>)
           b == EditableOf(eval, <<eval.polygons[2]>>)
       IN  /\ a \cap b # {}
           /\ a \ b # {}
           /\ b \ a # {}
           /\ EditableSet(eval.result.rgba) = a \cup b

(* C14: every pixel that is editable in the raster buildTextGlyphEditMaskPng
   returns is editable in the raster buildEditMaskPng builds from the same
   polygons, predicate and dimensions. *)
C14_RefineShrinks ==
    Built("buildTextGlyphEditMaskPng") =>
       EditableSet(eval.result.rgba) \subseteq EditableOf(eval, eval.polygons)

\* the refinement kept some pixels of the polygon and protected others
C14_Witness ==
    /\ Built("buildTextGlyphEditMaskPng")
    /\ EditableSet(eval.result.rgba) # {}
    /\ EditableSet(eval.result.rgba) # EditableOf(eval, eval.polygons)
    /\ \E i \in DOMAIN eval.edges : eval.edges[i] # {}

----------------------------------------------------------------------------
(* Template analysis: the text block extents refined from pixels
   (template-analysis.service.ts) *)

\* a property that is not there, or a value that is not an object
Absent == [type |-> "absent"]
NotAnObject == [type |-> "string"]

\* strings are sequences of characters
Blank == " "
HexDigits ==
    {"0", "1", "2", "3", "4", "5", "6", "7", "8", "9",
     "a", "b", "c", "d", "e", "f", "A", "B", "C", "D", "E", "F"}

HexValue(c) ==
    CASE c = "0" -> 0 [] c = "1" -> 1 [] c = "2" -> 2 [] c = "3" -> 3
      [] c = "4" -> 4 [] c = "5" -> 5 [] c = "6" -> 6 [] c = "7" -> 7
      [] c = "8" -> 8 [] c = "9" -> 9
      [] c \in {"a", "A"} -> 10 [] c \in {"b", "B"} -> 11
      [] c \in {"c", "C"} -> 12 [] c \in {"d", "D"} -> 13
      [] c \in {"e", "E"} -> 14 [] c \in {"f", "F"} -> 15

\* String.prototype.trim on a sequence of characters
RECURSIVE TrimStart(_)
TrimStart(s) == IF s # <<>> /\ Head(s) = Blank THEN TrimStart(Tail(s)) ELSE s

RECURSIVE TrimEnd(_)
TrimEnd(s) ==
    IF s # <<>> /\ s[Len(s)] = Blank THEN TrimEnd(SubSeq(s, 1, Len(s) - 1)) ELSE s

TrimChars(s) == TrimEnd(TrimStart(s))

\* mutant: a string that is no colour is read as black
parseHexColor_DefaultsToBlack(hex) ==
    LET s == TrimChars(hex)
        v == IF s # <<>> /\ Head(s) = "#" THEN Tail(s) ELSE s
        byte(i) == 16 * HexValue(v[i]) + HexValue(v[i + 1])
    IN  IF Len(v) = 6 /\ \A i \in 1..6 : v[i] \in HexDigits
        THEN [r |-> byte(1), g |-> byte(3), b |-> byte(5)]
        ELSE [r |-> 0, g |-> 0, b |-> 0]

\* lines 289-299: /^#?([0-9a-fA-F]{6})$/ on the trimmed string, or null
parseHexColor(hex) ==
    LET s == TrimChars(hex)
        v == IF s # <<>> /\ Head(s) = "#" THEN Tail(s) ELSE s
        byte(i) == 16 * HexValue(v[i]) + HexValue(v[i + 1])
    IN  IF Len(v) = 6 /\ \A i \in 1..6 : v[i] \in HexDigits
        THEN [r |-> byte(1), g |-> byte(3), b |-> byte(5)]
        ELSE Nil

Abs(n) == IF n < 0 THEN -n ELSE n

\* lines 338-352
isNearFillColor(px, target) ==
    IF target.r >= 245 /\ target.g >= 245 /\ target.b >= 245
    THEN px.r >= 210 /\ px.g >= 210 /\ px.b >= 210
    ELSE IF target.r >= 200 /\ target.g <= 80 /\ target.b <= 80
    THEN /\ px.r >= 150 /\ px.g <= 120 /\ px.b <= 120
         /\ px.r - MaxOf({px.g, px.b}) >= 40
    ELSE Abs(px.r - target.r) + Abs(px.g - target.g) + Abs(px.b - target.b) <= 160

\* lines 197-209: the scanned columns [x0, x1) of the block
ScanBand(widthPct, width) ==
    LET given == widthPct # Undefined /\ widthPct[1] > 0 /\ widthPct[1] <= 100
        \* leftPct and rightPct in halves of a percent
        left2 == IF given THEN 100 - widthPct[1] ELSE 40
        right2 == IF given THEN 200 - left2 ELSE 160
        x0 == clampInt((left2 * width) \div 200, 0, width - 1)
        x1Raw == clampInt(MathCeil(<<right2 * width, 200>>), x0 + 1, width)
        x1 == clampInt((85 * x1Raw + 15 * x0) \div 100, x0 + 1, width)
    IN  [x0 |-> x0, x1 |-> x1]

MinHitsFloor == 20

\* lines 313-317: max(20, floor(scanWidth * 0.006))
MinHits(x0, x1) ==
    MaxOf({MinHitsFloor, (MaxOf({1, x1 - x0}) * 6) \div 1000})

\* The image: its rows are of the colour bg inside the band, except the
\* rows of .rows, which hold .count pixels of .colour there.
RowHits(image, band, y, target) ==
    LET scanned == band.x1 - band.x0
        listed == { i \in DOMAIN image.rows : image.rows[i].y = y }
        bgNear == IF isNearFillColor(image.bg, target) THEN 1 ELSE 0
    IN  IF listed = {} THEN scanned * bgNear
        ELSE LET row == image.rows[CHOOSE i \in listed : TRUE]
                 n == MinOf({row.count, scanned})
             IN  (IF isNearFillColor(row.colour, target) THEN n ELSE 0)
                 + (scanned - n) * bgNear

\* the rows worth looking at: the listed ones, and the first rows from
\* either end that are not listed (the rows not listed are all alike)
RowsOfInterest(image) ==
    LET k == Len(image.rows) IN
    ({ image.rows[i].y : i \in DOMAIN image.rows }
        \cup (0..k) \cup ((image.height - 1 - k)..(image.height - 1)))
    \cap (0..(image.height - 1))

\* mutant: both scans run from the top
findFirstMatchingRow_FromTop(image, band, direction, target) ==
    LET dense == { y \in RowsOfInterest(image) :
                     RowHits(image, band, y, target) >= MinHits(band.x0, band.x1) }
    IN  IF dense = {} THEN Undefined ELSE Num(MinOf(dense))

\* lines 301-336: the first row, from the top or from the bottom, with at
\* least minHits matching pixels in the band; null when there is none
findFirstMatchingRow(image, band, direction, target) ==
    LET dense == { y \in RowsOfInterest(image) :
                     RowHits(image, band, y, target) >= MinHits(band.x0, band.x1) }
    IN  IF dense = {} THEN Undefined
        ELSE IF direction = "top" THEN Num(MinOf(dense)) ELSE Num(MaxOf(dense))

\* round1(n) = Math.round(n * 10) / 10, in tenths, of the fraction num / den
round1(num, den) == MathRound(10 * num, den)

\* mutant: the extents are stored also when the two rows are not in order
RowsInOrder_Unchecked(topY, bottomY) ==
    topY # Undefined /\ bottomY # Undefined

\* line 241: both rows found, and the bottom one below the top one
RowsInOrder(topY, bottomY) ==
    /\ topY # Undefined /\ bottomY # Undefined
    /\ topY[1] >= 0 /\ bottomY[1] > topY[1]

\* lines 245-260: the block with the extents measured from the pixels, the
\* percentages in tenths
UpdatedSpec(spec, topY, bottomY, height) ==
    LET topPct == round1(topY * 100, height)
        bottomPct == round1(bottomY * 100, height)
    IN  [spec EXCEPT !.textRegions.block.topPct = topPct,
                     !.textRegions.block.bottomPct = bottomPct,
                     !.textRegions.block.heightPct = bottomPct - topPct]

\* lines 177-261: the refined spec, the spec as it came, or an exception
\* (sharp rejects bytes that are no image)
refineReconstructionSpecTextBlockExtentsFromPixels(image, spec) ==
    LET textRegions == spec.textRegions
        same == [raised |-> FALSE, updated |-> FALSE, spec |-> spec]
    IN
    IF textRegions.type # "object" THEN same
    ELSE IF textRegions.block.type # "object" THEN same
    ELSE IF textRegions.regions = Absent \/ textRegions.regions.list = <<>> THEN same
    ELSE IF image.dataUrl # "data:image/png;base64,..." THEN same
    ELSE IF ~image.decodable THEN [raised |-> TRUE, updated |-> FALSE, spec |-> Nil]
    ELSE IF image.width = 0 \/ image.height = 0 \/ image.channels = 0
            \/ image.channels < 3 THEN same
    ELSE LET regions == textRegions.regions.list
             band == ScanBand(textRegions.block.widthPct, image.width)
             topColor == parseHexColor(regions[1].fillColor)
             bottomColor == parseHexColor(regions[Len(regions)].fillColor)
             topY == IF topColor # Nil
                     THEN findFirstMatchingRow(image, band, "top", topColor)
                     ELSE Undefined
             bottomY == IF bottomColor # Nil
                        THEN findFirstMatchingRow(image, band, "bottom", bottomColor)
                        ELSE Undefined
         IN  IF ~RowsInOrder(topY, bottomY) THEN same
             ELSE [raised |-> FALSE, updated |-> TRUE,
                   spec |-> UpdatedSpec(spec, topY[1], bottomY[1], image.height)]

----------------------------------------------------------------------------
(* Template analysis applied to bounded inputs *)

White == [r |-> 255, g |-> 255, b |-> 255]
OffWhite == [r |-> 220, g |-> 215, b |-> 212]
Red == [r |-> 230, g |-> 30, b |-> 30]
Teal == [r |-> 26, g |-> 43, b |-> 60]
Black == [r |-> 0, g |-> 0, b |-> 0]

WhiteHex == <<"#", "F", "F", "F", "F", "F", "F">>
RedHex == <<Blank, "e", "6", "1", "e", "1", "e", Blank>>
TealHex == <<"#", "1", "A", "2", "b", "3", "C">>
ColorStrings ==
    { WhiteHex, RedHex, TealHex, <<>>, <<"#", "f", "f", "f">>,
      <<"r", "e", "d">>, <<"#", "G", "G", "0", "0", "0", "0">> }

DataUrl == "data:image/png;base64,..."

Region(fillColor) == [fillColor |-> fillColor]
Regions(list) == [type |-> "array", list |-> list]

\* the text block as the model estimated it, percentages in tenths
Block(widthPct) ==
    [type |-> "object", widthPct |-> widthPct, topPct |-> 300,
     bottomPct |-> 250, heightPct |-> 111]

ReconstructionSpec(block, regions) ==
    [layout |-> "banner",
     textRegions |-> [type |-> "object", count |-> 2, block |-> block,
                      regions |-> regions]]

GoodSpec == ReconstructionSpec(Block(Undefined), Regions(<<Region(WhiteHex), Region(RedHex)>>))

Row(y, colour, count) == [y |-> y, colour |-> colour, count |-> count]

Image(width, height, bg, rows) ==
    [dataUrl |-> DataUrl, decodable |-> TRUE, width |-> width, height |-> height,
     channels |-> 3, bg |-> bg, rows |-> rows]

GoodImage == Image(100, 60, Black, <<Row(21, White, 51), Row(40, Red, 51)>>)

ImageHeights == {60, 1024, 4000}

AnalysisCall(image, spec) ==
    [fn |-> "analyzeTemplateImage", image |-> image, model |-> spec,
     parsed |-> [reconstructionPrompt |-> "prompt", reconstructionSpec |-> spec],
     pc |-> "refine", updated |-> FALSE, result |-> Nil]

\* images with a white row and a red row, dense or not, in either order
ImagesWithRows ==
    \E w \in {100, 1536}, h \in ImageHeights, bg \in {Black, OffWhite},
       y1 \in {0, 21, 40}, y2 \in {0, 22, 40}, n1 \in {19, 51}, n2 \in {19, 51} :
       /\ y1 # y2
       /\ eval = AnalysisCall(Image(w, h, bg, <<Row(y1, White, n1), Row(y2, Red, n2)>>),
                              GoodSpec)

\* the last row of the image, and an image of one colour
ImagesAtTheEdge ==
    \E h \in ImageHeights, bg \in {Black, White, Red, Teal},
       c \in {White, Red, Teal} :
       eval = AnalysisCall(Image(100, h, bg, <<Row(0, White, 51), Row(h - 1, c, 51)>>),
                           ReconstructionSpec(Block(Num(50)),
                              Regions(<<Region(WhiteHex),
                                        Region(IF c = Teal THEN TealHex ELSE RedHex)>>)))

\* bytes that are no image, images without pixels or colours, no data URL
ImagesThatFail ==
    \E u \in {DataUrl, "no comma", "data:image/png;base64,"},
       d \in BOOLEAN, w \in {0, 100}, h \in {0, 60}, ch \in {0, 1, 3, 4} :
       eval = AnalysisCall([GoodImage EXCEPT !.dataUrl = u, !.decodable = d,
                               !.width = w, !.height = h, !.channels = ch],
                           GoodSpec)

\* every pair of fill colour strings, every block width
SpecsWithColors ==
    \E top \in ColorStrings, bottom \in ColorStrings,
       wp \in {Undefined, Num(50), Num(0), Num(120), Num(33)} :
       eval = AnalysisCall(GoodImage,
                 ReconstructionSpec(Block(wp), Regions(<<Region(top), Region(bottom)>>)))

\* specs without text regions, without a block, without regions
SpecsWithHoles ==
    \E tr \in {Absent, NotAnObject}, b \in {Absent, NotAnObject, Block(Undefined)},
       rs \in {Absent, Regions(<<>>), Regions(<<Region(WhiteHex)>>)},
       whole \in BOOLEAN :
       eval = AnalysisCall(GoodImage,
                 IF whole THEN ReconstructionSpec(b, rs)
                 ELSE [layout |-> "banner", textRegions |-> tr])

AnalysisInit ==
    /\ IdlePipeline
    /\ \/ ImagesWithRows \/ ImagesAtTheEdge \/ ImagesThatFail
       \/ SpecsWithColors \/ SpecsWithHoles

\* line 146-150: the refinement returns, and its result replaces the spec
RefineReturns ==
    /\ eval.fn = "analyzeTemplateImage" /\ eval.pc = "refine"
    /\ LET r == refineReconstructionSpecTextBlockExtentsFromPixels(
                   eval.image, eval.parsed.reconstructionSpec) IN
       /\ ~r.raised
       /\ eval' = [eval EXCEPT !.parsed.reconstructionSpec = r.spec,
                               !.updated = r.updated, !.pc = "return"]
    /\ UNCHANGED pipeVars

\* lines 151-153: the refinement raises, and the exception is dropped
RefineRaises ==
    /\ eval.fn = "analyzeTemplateImage" /\ eval.pc = "refine"
    /\ refineReconstructionSpecTextBlockExtentsFromPixels(
          eval.image, eval.parsed.reconstructionSpec).raised
    /\ eval' = [eval EXCEPT !.pc = "return"]
    /\ UNCHANGED pipeVars

\* line 155
AnalyzeReturns ==
    /\ eval.fn = "analyzeTemplateImage" /\ eval.pc = "return"
    /\ eval' = [eval EXCEPT !.result = eval.parsed, !.pc = "done"]
    /\ UNCHANGED pipeVars

AnalysisNext == RefineReturns \/ RefineRaises \/ AnalyzeReturns

AnalysisSpec == AnalysisInit /\ [][AnalysisNext]_vars

(* C15: whenever the refinement stores extents, the stored values (tenths
   of a percent) satisfy 0 <= topPct < bottomPct <= 100 and heightPct is
   bottomPct - topPct. *)
C15_ExtentsOrdered ==
    (eval.fn = "analyzeTemplateImage" /\ eval.updated) =>
       LET block == eval.parsed.reconstructionSpec.textRegions.block IN
       /\ 0 <= block.topPct
       /\ block.topPct < block.bottomPct
       /\ block.bottomPct <= 1000
       /\ block.heightPct = block.bottomPct - block.topPct

\* the fill colours of the first and the last region, <<>> when there are none
EdgeColors(spec) ==
    IF /\ spec.textRegions.type = "object"
       /\ spec.textRegions.regions.type = "array"
       /\ spec.textRegions.regions.list # <<>>
    THEN LET list == spec.textRegions.regions.list IN
         <<list[1].fillColor, list[Len(list)].fillColor>>
    ELSE <<>>

\* the strings of ColorStrings that are hex colours
HexColorStrings == {WhiteHex, RedHex, TealHex}

ColorUnusable(spec) ==
    \/ EdgeColors(spec) = <<>>
    \/ \E i \in 1..2 : EdgeColors(spec)[i] \notin HexColorStrings

ImageUsable(image) ==
    /\ image.dataUrl = DataUrl /\ image.decodable
    /\ image.width > 0 /\ image.height > 0 /\ image.channels >= 3

NoDenseRow(image, spec) ==
    /\ ~ColorUnusable(spec)
    /\ spec.textRegions.block.type = "object"
    /\ ImageUsable(image)
    /\ LET band == ScanBand(spec.textRegions.block.widthPct, image.width)
           colors == EdgeColors(spec) IN
       \/ findFirstMatchingRow(image, band, "top",
             parseHexColor(TrimChars(colors[1]))) = Undefined
       \/ findFirstMatchingRow(image, band, "bottom",
             parseHexColor(TrimChars(colors[2]))) = Undefined

RefinementRaised(image) ==
    /\ image.dataUrl = DataUrl /\ ~image.decodable

(* C16: the refinement never fails analyzeTemplateImage: when an edge
   colour is absent or not a hex colour, when no row is dense enough, or
   when the refinement raises, the reconstruction spec is the one the
   model produced, and that is what analyzeTemplateImage returns. *)
C16_RefinementNeverFails ==
    eval.fn = "analyzeTemplateImage" =>
       /\ eval.pc # "refine" =>
             /\ ( \/ ColorUnusable(eval.model)
                  \/ NoDenseRow(eval.image, eval.model)
                  \/ RefinementRaised(eval.image) )
                   => /\ ~eval.updated
                      /\ eval.parsed.reconstructionSpec = eval.model
             /\ ~eval.updated => eval.parsed.reconstructionSpec = eval.model
       /\ eval.pc = "done" => eval.result = eval.parsed

\* a call returned although a fill colour was no hex colour and rows were dense
C16_Witness ==
    /\ eval.fn = "analyzeTemplateImage" /\ eval.pc = "done"
    /\ eval.model.textRegions.type = "object"
    /\ EdgeColors(eval.model) = <<<<"r", "e", "d">>, RedHex>>
    /\ eval.image = GoodImage
    /\ eval.result.reconstructionSpec = eval.model

----------------------------------------------------------------------------
(* Label normalisation applied to bounded inputs (normalizePolygonLabel) *)

BackgroundAliases == {"background image", "background photo", "bg", "background_scene"}
MainAliases == {"main subject", "subject", "foreground", "fg", "person"}

\* the names of text fields; a name keeps its capitals ("Title" is not "title")
TextFieldKeys ==
    { [name |-> "title", upper |-> FALSE], [name |-> "title", upper |-> TRUE],
      [name |-> "promo", upper |-> FALSE], [name |-> "auto", upper |-> FALSE] }

\* the label text:<key>, written exactly: its only capitals are the key's
KeyedLabel(key) ==
    L(CASE key.name = "title" -> "text:title"
        [] key.name = "promo" -> "text:promo"
        [] key.name = "auto" -> "text:auto",
      FALSE, key.upper)

CanonicalLabels ==
    {Canon("background"), Canon("main"), Canon("text")}
       \cup { KeyedLabel(key) : key \in TextFieldKeys }

LabelTexts ==
    {"", "background", "main", "text", "text:title", "text:promo", "text:auto",
     "text:", "logo", "background main"}
       \cup BackgroundAliases \cup MainAliases

LabelInit ==
    /\ IdlePipeline
    /\ \E text \in LabelTexts, pad \in BOOLEAN, upper \in BOOLEAN :
          eval = [fn |-> "normalizePolygonLabel", value |-> L(text, pad, upper),
                  once |-> Nil, twice |-> Nil, pc |-> "start"]

\* normalizePolygonLabel(value)
NormalizeLabel ==
    /\ eval.fn = "normalizePolygonLabel" /\ eval.pc = "start"
    /\ eval' = [eval EXCEPT !.once = normalizePolygonLabel(eval.value),
                            !.pc = "once"]
    /\ UNCHANGED pipeVars

\* normalizePolygonLabel(normalizePolygonLabel(value))
NormalizeLabelAgain ==
    /\ eval.fn = "normalizePolygonLabel" /\ eval.pc = "once"
    /\ eval' = [eval EXCEPT !.twice = normalizePolygonLabel(eval.once),
                            !.pc = "twice"]
    /\ UNCHANGED pipeVars

LabelNext == NormalizeLabel \/ NormalizeLabelAgain

LabelSpec == LabelInit /\ [][LabelNext]_vars

(* C17: normalizePolygonLabel is idempotent, returns the canonical labels
   background, main, text and text:<key> unchanged for every key, and maps
   every known synonym, however padded or capitalised, to its canonical
   label. *)
C17_LabelNormalization ==
    (eval.fn = "normalizePolygonLabel" /\ eval.pc # "start") =>
       /\ eval.pc = "twice" => eval.twice = eval.once
       /\ eval.value \in CanonicalLabels => eval.once = eval.value
       /\ eval.value.text \in BackgroundAliases => eval.once = Canon("background")
       /\ eval.value.text \in MainAliases => eval.once = Canon("main")

----------------------------------------------------------------------------
(* Image dimensions: the mask builders on any size, next to the pipeline *)

\* a request is handled, or a mask builder is called on sizes of any kind
\* a polygon of fewer than 3 points, alone or next to a square
ShortShapes(fn) ==
    \E n \in 0..2 : \E s \in Shapes(n), withSquare \in BOOLEAN, first \in BOOLEAN :
       /\ (withSquare /\ n < 2) => first
       /\ ~withSquare => first
       /\ eval = MaskCall(fn, Num(6), Num(6),
                   IF ~withSquare THEN <<Poly(Canon("background"), s)>>
                   ELSE IF first
                   THEN <<Poly(Canon("background"), s), Poly(Canon("background"), Square)>>
                   ELSE <<Poly(Canon("background"), Square), Poly(Canon("background"), s)>>)

DimsInit ==
    \/ Init
    \/ /\ IdlePipeline
       /\ \/ AnySize("buildEditMaskPng")
          \/ AnySize("buildTextGlyphEditMaskPng")
          \/ ShortShapes("buildEditMaskPng")
          \/ ShortShapes("buildTextGlyphEditMaskPng")

BuildAnyMask == eval # Nil /\ MaskNext

DimsNext == Next \/ BuildAnyMask

DimsSpec == DimsInit /\ [][DimsNext]_vars

\* a width or height that is a positive number
PositiveSize(v) == v # Undefined /\ v[1] >= 1

\* generation g failed because the dimensions of its base could not be read
DimsUnreadable(g) ==
    /\ proc[g].pc \in {"catch", "failed"}
    /\ proc[g].err.code = "Failed to read image dimensions"

(* C18: both mask builders refuse a width or height that is zero, negative
   or missing: they raise "Invalid mask dimensions" having allocated no
   raster and processed no polygon.  In the pipeline, a base image whose
   dimensions cannot be read is fatal: no edit is invoked for that pass,
   no mask of unreadable dimensions reaches an edit, and the generation
   ends failed. *)
C18_InvalidDimensions ==
    /\ (eval # Nil /\ eval.done
           /\ ~(PositiveSize(eval.width) /\ PositiveSize(eval.height)))
          => /\ eval.result.error = "Invalid mask dimensions"
             /\ ~eval.result.allocated
             /\ eval.result.rgba = Nil
    /\ \A g \in Gens :
          DimsUnreadable(g) =>
             /\ \A i \in DOMAIN editLog :
                   ~(editLog[i].gen = g /\ editLog[i].pass = proc[g].pass)
             /\ ~Returned(g)
             /\ db[g].status # "succeeded"
             /\ proc[g].pc = "failed" => db[g].status = "failed"
    /\ \A i \in DOMAIN editLog :
          editLog[i].pass \in MaskedPasses =>
             /\ editLog[i].mask # NoFile
             /\ ~InvalidDims(editLog[i].mask.dims)

\* a builder refused a negative width
C18_Witness ==
    /\ eval # Nil /\ eval.done
    /\ eval.fn = "buildTextGlyphEditMaskPng"
    /\ eval.width = Num(-1) /\ eval.height = Num(6)
    /\ eval.result.error = "Invalid mask dimensions"

----------------------------------------------------------------------------
(* The mask of a pass and the base image of that pass *)

MaskedCalls == { i \in DOMAIN editLog : editLog[i].pass \in MaskedPasses }

(* C20: in every masked pass the mask handed to the edit has the pixel
   dimensions of the base image handed to the same edit, and it is the
   mask built for that pass: two passes never share a mask. *)
C20_MaskMatchesBase ==
    /\ \A i \in MaskedCalls :
          LET e == editLog[i] IN
          /\ e.mask # NoFile
          /\ e.mask.type = "mask"
          /\ e.mask.label = e.pass
          /\ e.mask.dims = e.base.dims
    /\ \A i, j \in MaskedCalls :
          (editLog[i].gen = editLog[j].gen /\ editLog[i].pass # editLog[j].pass)
             => editLog[i].mask # editLog[j].mask

\* the main pass edits a base of other dimensions than the background pass
\* did, each with a mask of its own base's dimensions
C20_Witness ==
    \E i, j \in MaskedCalls :
       /\ i < j
       /\ editLog[i].gen = editLog[j].gen
       /\ editLog[i].pass = "background" /\ editLog[j].pass = "main"
       /\ editLog[i].base.dims # editLog[j].base.dims
       /\ editLog[i].mask.dims = editLog[i].base.dims
       /\ editLog[j].mask.dims = editLog[j].base.dims
----------------------------------------------------------------------------
(* Two requests at once *)

\* what the two callers ask for: a new background with notes, or a new
\* main subject without
PairRequests ==
    { [slots |-> <<"background">>, texts |-> <<>>, notes |-> "make it pop"],
      [slots |-> <<"main">>, texts |-> <<>>, notes |-> "null"] }

\* both generation ids are in use, on a template that has to be resized
PairInit ==
    /\ InitCommon
    /\ active = Gens
    /\ template = [isSpecial |-> TRUE, hasImage |-> TRUE, dims |-> "1024x1024",
                   polygons |-> <<PolyChoices[1], PolyChoices[3]>>]
    /\ TemplatePath \in DOMAIN files

\* a step of either handler; the awaits of the two interleave freely
PairStep(g) ==
    /\ Step(g) \/ Disconnect(g)
    /\ proc'[g].req \in PairRequests

PairNext == \E g \in Gens : PairStep(g)

PairSpec == PairInit /\ [][PairNext]_vars

\* the files under the directories of generation g
FilesOf(g) ==
    LET own == { path \in DOMAIN files : path.gen = g } IN
    [path \in own |-> files[path]]

\* what a step may read and write of generation g
StateOf(g) == <<proc[g], db[g], conn[g], FilesOf(g), LogOf(g)>>

\* every stored file is the template or lies under its generation's
\* directories and came from that generation
StoredApart ==
    \A path \in DOMAIN files \ {TemplatePath} :
       /\ path.gen \in Gens
       /\ files[path].type = "image" => files[path].gen = path.gen
       /\ files[path].type = "prompt" =>
             files[path].notes \in {proc[path.gen].req.notes, "null"}

\* every edit was handed the files and the prompt of its own generation
EditsApart ==
    \A i \in DOMAIN editLog :
       LET e == editLog[i] IN
       /\ e.basePath.gen \in {e.gen, "-"}
       /\ e.base.type = "image" /\ e.base.gen \in {e.gen, "-"}
       /\ \A k \in DOMAIN e.refs :
             e.refs[k].type = "image" /\ e.refs[k].gen = e.gen
       /\ e.pass \in MaskedPasses =>
             e.mask = ReadFile(IntermediatePath(e.gen, MaskStep(e.pass)))
       /\ e.prompt.notes \in {proc[e.gen].req.notes, "null"}
       /\ e.outcome = "ok" => e.out.gen = e.gen

\* passes, bytes and status of g are those of its own request
OutcomeOwn(g) ==
    LET l == LogOf(g) IN
    /\ \A i \in DOMAIN l : Expected(g, l[i].pass)
    /\ Returned(g) =>
          /\ ExecutedPasses(g) = ExpectedPasses(g)
          /\ l # <<>> /\ proc[g].bytes = l[Len(l)].out
    /\ proc[g].pc = "done" <=> db[g].status = "succeeded"
    /\ proc[g].pc = "failed" <=> db[g].status = "failed"
    /\ db[g].status = "succeeded" =>
          /\ db[g].outputUrl = GenerationImagePath(g)
          /\ ReadFile(db[g].outputUrl) = proc[g].bytes

(* C19: two requests with distinct generation ids are independent: what one
   writes and reads (subject images, masks, prompts, pass outputs) is its
   own, a step of one changes nothing of the other, and the passes
   executed, the final bytes and the final status of each are those of its
   own request. *)
C19_Independent ==
    /\ [](StoredApart /\ EditsApart /\ \A g \in Gens : OutcomeOwn(g))
    /\ [][\A g, h \in Gens :
             (g # h /\ StateOf(g)' # StateOf(g)) => StateOf(h)' = StateOf(h)]_vars

\* both requests ended, one with its new background and one with its new
\* main subject, each from a resized base of its own
C19_Witness ==
    /\ proc["g1"].pc = "done" /\ proc["g2"].pc = "done"
    /\ ExecutedPasses("g1") = <<"background">>
    /\ ExecutedPasses("g2") = <<"main">>
    /\ Len(editLog) = 2
    /\ editLog[1].gen = "g1" /\ editLog[2].gen = "g2"
    /\ editLog[2].out = proc["g2"].bytes
    /\ IntermediatePath("g1", "base-1536x1024") \in DOMAIN files
    /\ IntermediatePath("g2", "base-1536x1024") \in DOMAIN files
----------------------------------------------------------------------------
(* The artifacts of a pass *)

\* the artifacts a pass persists before its edit
ArtifactsBeforeEdit(pass) ==
    IF pass \in MaskedPasses
    THEN {MaskStep(pass), PromptStep(pass), FallbackStep(pass)}
    ELSE {PromptStep(pass)}

(* C21: whenever the edit has been invoked for a background or main pass,
   the mask, the prompt and the fallback prompt of that pass are stored,
   and for the text pass the prompt is; they are the ones the edit was
   given, and they stay stored whether the edit is pending, succeeded or
   failed, and after the generation ended either way. *)
C21_ArtifactsBeforeEdit ==
    \A i \in DOMAIN editLog :
       LET e == editLog[i] IN
       e.pass \in {"background", "main", "text"} =>
          /\ \A s \in ArtifactsBeforeEdit(e.pass) :
                IntermediatePath(e.gen, s) \in DOMAIN files
          /\ e.pass \in MaskedPasses =>
                /\ ReadFile(IntermediatePath(e.gen, MaskStep(e.pass))) = e.mask
                /\ ReadFile(IntermediatePath(e.gen, FallbackStep(e.pass))).notes = "null"
          /\ e.attempt = "primary" =>
                ReadFile(IntermediatePath(e.gen, PromptStep(e.pass))) = e.prompt

\* a failed generation whose main edit failed keeps the artifacts of both passes
C21_Witness ==
    \E g \in Gens :
       /\ proc[g].pc = "failed"
       /\ proc[g].err.kind = "EditFailed" /\ proc[g].err.pass = "main"
       /\ \A pass \in MaskedPasses : \A s \in ArtifactsBeforeEdit(pass) :
             IntermediatePath(g, s) \in DOMAIN files
----------------------------------------------------------------------------
(* Polygons of fewer than 3 points *)

\* the polygons of the call that have at least 3 points
WithoutShort(polygons) == SelectSeq(polygons, LAMBDA p : Len(p.points) >= 3)

(* C22: a polygon of fewer than 3 points is ignored everywhere.  A mask
   built from a list of polygons is the mask built from the list without
   its short polygons, and has no editable pixel when all are short.  In
   the pipeline no mask holds a short polygon, and a pass whose label is
   carried by short polygons only leaves no trace: no mask, no prompt, no
   edit. *)
C22_ShortPolygonsIgnored ==
    /\ (eval # Nil /\ eval.done /\ eval.result.error = "") =>
          /\ eval.fn = "buildEditMaskPng" =>
                eval.result.rgba =
                   buildEditMaskPng_rgba(eval.width, eval.height,
                      WithoutShort(eval.polygons), eval.target).rgba
          /\ WithoutShort(eval.polygons) = <<>> =>
                EditableSet(eval.result.rgba) = {}
    /\ \A i \in DOMAIN editLog :
          editLog[i].pass \in MaskedPasses =>
             \A k \in DOMAIN editLog[i].mask.polys :
                editLog[i].mask.polys[k].npts >= 3
    /\ \A g \in Gens : \A pass \in MaskedPasses :
          ( /\ Accepted(g) /\ UseMaskPipeline
            /\ \A k \in DOMAIN template.polygons :
                  normalizePolygonLabel(template.polygons[k].label) = Canon(pass)
                     => template.polygons[k].npts < 3 )
          => ~Trace(g, pass)

\* a background image and only a 2-point polygon labelled background: the
\* pipeline is entered, no background pass runs, the generation fails
C22_Witness ==
    \E g \in Gens :
       /\ template.isSpecial
       /\ template.polygons = <<[label |-> Canon("background"), npts |-> 2]>>
       /\ proc[g].pc = "failed" /\ proc[g].err.kind = "NoApplicablePass"
       /\ Supplied(g, "background")
       /\ ~Trace(g, "background")
----------------------------------------------------------------------------
(* The text pass and its two lines *)

MaxTextEntries == 2

\* the text fields a template may configure, in their order
FieldLists ==
    { <<>>, <<"title">>, <<"title", "subtitle">>, <<"title", "subtitle", "footer">> }

Range(s) == { s[i] : i \in DOMAIN s }

\* the entries of a request that passed validation: known keys only
TextsFor(keys) ==
    SeqsUpTo([key : Range(keys), value : {"Hi", "Yo ", ""}], MaxTextEntries)

TextInit ==
    /\ IdlePipeline
    /\ \E keys \in FieldLists : \E texts \in TextsFor(keys) :
          eval = [fn |-> "extractTwoLineText", keys |-> keys, texts |-> texts,
                  done |-> FALSE, result |-> Nil]

\* line 435: const [line1, line2] = extractTwoLineText(template, texts)
ExtractLines ==
    /\ eval # Nil
    /\ eval.fn = "extractTwoLineText" /\ ~eval.done
    /\ eval' = [eval EXCEPT !.done = TRUE,
                            !.result = extractTwoLineText(eval.keys, eval.texts)]
    /\ UNCHANGED pipeVars

TextNext == Next \/ ExtractLines

\* a request is handled, or the two lines are extracted on their own
TextSpec == (Init \/ TextInit) /\ [][TextNext]_vars

\* the values supplied for the first two configured fields, as a line shows them
FirstTwoFieldValues(keys, texts) ==
    { trimEnd(texts[i].value) :
        i \in { j \in DOMAIN texts :
                   \E n \in 1..2 : n <= Len(keys) /\ texts[j].key = keys[n] } }

(* C23: in the masked pipeline the text pass runs if and only if text
   entries were supplied (entries with an empty value included), whatever
   the polygons and the earlier passes; its edit is given no mask and no
   reference image, and each of the two lines of its prompt is empty or a
   value supplied for one of the first two configured text fields. *)
C23_TextPass ==
    /\ \A g \in Gens :
          (Accepted(g) /\ UseMaskPipeline) =>
             /\ Trace(g, "text") => proc[g].req.texts # <<>>
             /\ Returned(g) =>
                   ((\E i \in DOMAIN editLog :
                        editLog[i].gen = g /\ editLog[i].pass = "text")
                      <=> proc[g].req.texts # <<>>)
    /\ \A i \in DOMAIN editLog :
          editLog[i].pass = "text" =>
             /\ editLog[i].mask = NoFile
             /\ editLog[i].refs = <<>>
             /\ \A line \in {editLog[i].prompt.line1, editLog[i].prompt.line2} :
                   line \in {""} \cup FirstTwoFieldValues(TemplateTextFields,
                                         proc[editLog[i].gen].req.texts)
    /\ (eval # Nil /\ eval.done) =>
          \A n \in 1..2 :
             eval.result[n] \in {""} \cup FirstTwoFieldValues(eval.keys, eval.texts)
----------------------------------------------------------------------------
(* The refined mask, polygon by polygon *)

\* the pixels of the raster the i-th polygon of the call keeps editable on
\* its own: its footprint, where its grown edge mask covers it
GlyphPixels(e, i) ==
    LET width == e.width[1]
        height == e.height[1]
        pts == ToPixels(e.polygons[i].points, width, height)
        bounds == polygonBounds(pts, width, height, GlyphPadPx)
        grown == dilate(EdgeMask(bounds, e.edges[i]), bounds.boxW, bounds.boxH,
                        DilateRadius)
        footprint == FillSpans(width, height, pts)
    IN  { px \in footprint :
            <<px[1] - bounds.left, px[2] - bounds.top>> \in grown }

MatchingIndices(e) ==
    { i \in DOMAIN e.polygons :
        /\ includeLabel(e.target, Trim(e.polygons[i].label))
        /\ Len(e.polygons[i].points) >= 3 }

(* C24: the editable pixels of the raster buildTextGlyphEditMaskPng returns
   are exactly the pixels that lie in the footprint of some matching
   polygon and under that polygon's edge mask grown by 3 pixels inside its
   padded box, whatever the order of the polygons and whether or not their
   boxes overlap. *)
C24_GlyphMaskExact ==
    Built("buildTextGlyphEditMaskPng") =>
       EditableSet(eval.result.rgba)
          = UNION { GlyphPixels(eval, i) : i \in MatchingIndices(eval) }
----------------------------------------------------------------------------
(* The two row scans of the text block (findFirstMatchingRow) *)

ScanWidths == {100, 8000}
ScanHeights == {60, 300}
HitCounts == {19, 20, 24, 25}

ScanInit ==
    /\ IdlePipeline
    /\ \E w \in ScanWidths, h \in ScanHeights, bg \in {Black, OffWhite},
          y1 \in {0, 21}, last \in BOOLEAN, n1 \in HitCounts, n2 \in HitCounts,
          c2 \in {White, Red}, top \in {White, Red}, bottom \in {White, Red, Teal} :
          eval = [fn |-> "findFirstMatchingRow",
                  image |-> Image(w, h, bg, <<Row(y1, White, n1),
                                     Row(IF last THEN h - 1 ELSE 22, c2, n2)>>),
                  band |-> ScanBand(Undefined, w),
                  top |-> top, bottom |-> bottom,
                  topDone |-> FALSE, topY |-> Undefined,
                  bottomDone |-> FALSE, bottomY |-> Undefined]

\* lines 216-227: the scan for the top edge
ScanTop ==
    /\ eval.fn = "findFirstMatchingRow" /\ ~eval.topDone
    /\ eval' = [eval EXCEPT !.topDone = TRUE,
                    !.topY = findFirstMatchingRow(eval.image, eval.band, "top", eval.top)]
    /\ UNCHANGED pipeVars

\* lines 228-239: the scan for the bottom edge
ScanBottom ==
    /\ eval.fn = "findFirstMatchingRow" /\ ~eval.bottomDone
    /\ eval' = [eval EXCEPT !.bottomDone = TRUE,
                    !.bottomY = findFirstMatchingRow(eval.image, eval.band, "bottom",
                                                     eval.bottom)]
    /\ UNCHANGED pipeVars

ScanNext == ScanTop \/ ScanBottom

ScanSpec == ScanInit /\ [][ScanNext]_vars

\* the pixels of row y in columns [x0, x1) that match the colour
Matches(e, y, target) == RowHits(e.image, e.band, y, target)

ScannedWidth(e) == e.band.x1 - e.band.x0

\* the count reaches max(20, 0.6% of the scanned width)
ReachesDensity(e, count) ==
    /\ count >= 20
    /\ 1000 * count >= 6 * ScannedWidth(e)

\* the count reaches max(20, 0.6% of the scanned width rounded down)
ReachesFlooredDensity(e, count) ==
    /\ count >= 20
    /\ count >= (6 * ScannedWidth(e)) \div 1000

\* y is the first row, in the order of the scan, that is dense for the colour
FirstDense(e, y, direction, target, Dense(_, _)) ==
    /\ y \in 0..(e.image.height - 1)
    /\ Dense(e, Matches(e, y, target))
    /\ \A z \in 0..(e.image.height - 1) :
          (IF direction = "top" THEN z < y ELSE z > y)
             => ~Dense(e, Matches(e, z, target))

NoneDense(e, target, Dense(_, _)) ==
    \A z \in 0..(e.image.height - 1) : ~Dense(e, Matches(e, z, target))

ScanCorrect(e, done, result, direction, target, Dense(_, _)) ==
    done => IF result = Undefined THEN NoneDense(e, target, Dense)
            ELSE FirstDense(e, result[1], direction, target, Dense)

(* C25: each scan returns the first row, in its order, whose matches in
   the scanned columns reach max(20, 0.6% of the scanned width), and no row
   when none does; the result of a scan depends on its own colour only,
   whether or not the other scan has run. *)
C25_FirstDenseRow ==
    eval.fn = "findFirstMatchingRow" =>
       /\ ScanCorrect(eval, eval.topDone, eval.topY, "top", eval.top, ReachesDensity)
       /\ ScanCorrect(eval, eval.bottomDone, eval.bottomY, "bottom", eval.bottom,
                      ReachesDensity)

(* C25, amended: the same with the threshold the scan uses, max(20, 0.6%
   of the scanned width rounded down to a whole number of pixels). *)
C25_FirstFlooredDenseRow ==
    eval.fn = "findFirstMatchingRow" =>
       /\ ScanCorrect(eval, eval.topDone, eval.topY, "top", eval.top,
                      ReachesFlooredDensity)
       /\ ScanCorrect(eval, eval.bottomDone, eval.bottomY, "bottom", eval.bottom,
                      ReachesFlooredDensity)

\* on a wide image both scans returned, the top one a row of 24 matches
\* where 0.6% of the scanned width is more than 24
C25_Witness ==
    /\ eval.fn = "findFirstMatchingRow"
    /\ eval.topDone /\ eval.bottomDone
    /\ eval.topY # Undefined /\ eval.bottomY # Undefined
    /\ eval.topY # eval.bottomY
    /\ Matches(eval, eval.topY[1], eval.top) = 24
    /\ 6 * ScannedWidth(eval) > 24000
----------------------------------------------------------------------------
(* The fill of an axis-aligned rectangle *)

XsOf(points) == { points[i].x : i \in DOMAIN points }
YsOf(points) == { points[i].y : i \in DOMAIN points }

\* four corners in order around a rectangle with sides along the axes:
\* successive corners share one coordinate and differ in the other
IsRectangle(points) ==
    /\ Len(points) = 4
    /\ Cardinality(XsOf(points)) = 2 /\ Cardinality(YsOf(points)) = 2
    /\ Cardinality({ points[i] : i \in 1..4 }) = 4
    /\ \A i \in 1..4 :
          LET q == points[(i % 4) + 1] IN
          (points[i].x = q.x) # (points[i].y = q.y)

RectanglePixels(points) ==
    { px \in (MinOf(XsOf(points))..MaxOf(XsOf(points)))
             \X (MinOf(YsOf(points))..(MaxOf(YsOf(points)) - 1)) : TRUE }

\* the call was given one polygon, accepted by the predicate, that is a
\* rectangle in pixel coordinates
OneRectangle(e) ==
    /\ Len(e.polygons) = 1
    /\ Len(MatchingPolygons(e)) = 1
    /\ IsRectangle(MatchingPolygons(e)[1])

PctsOf(points, axis) ==
    { IF axis = "x" THEN points[i].xPct ELSE points[i].yPct : i \in DOMAIN points }

(* C26: for one axis-aligned rectangle with pixel corners at columns
   xL < xR and rows yT < yB, the editable pixels of the raster
   buildEditMaskPng returns are exactly those with xL <= x <= xR and
   yT <= y < yB; a rectangle from 0% to 100% of the height leaves the last
   row of the raster protected, and one that reaches 100% of the width has
   the last column editable in its rows. *)
C26_RectangleFill ==
    (Built("buildEditMaskPng") /\ OneRectangle(eval)) =>
       LET r == MatchingPolygons(eval)[1]
           rgba == eval.result.rgba
           w == eval.width[1]
           h == eval.height[1]
           pts == eval.polygons[1].points
       IN  /\ EditableSet(rgba) = RectanglePixels(r)
           /\ PctsOf(pts, "y") = {0, 100} =>
                  \A x \in 0..(w - 1) : rgba[<<x, h - 1>>] = Protected
           /\ 100 \in PctsOf(pts, "x") =>
                  \A y \in MinOf(YsOf(r))..(MaxOf(YsOf(r)) - 1) :
                     rgba[<<w - 1, y>>] = Editable

\* the rectangle over the whole image: its last column is editable down to
\* the row before the last, the last row is protected
C26_Witness ==
    /\ Built("buildEditMaskPng") /\ OneRectangle(eval)
    /\ PctsOf(eval.polygons[1].points, "x") = {0, 100}
    /\ PctsOf(eval.polygons[1].points, "y") = {0, 100}
    /\ eval.result.rgba[<<eval.width[1] - 1, eval.height[1] - 2>>] = Editable
    /\ eval.result.rgba[<<eval.width[1] - 1, eval.height[1] - 1>>] = Protected
----------------------------------------------------------------------------
(* The checks of createFromMultipart before the generation row *)

IntakeSlots ==
    { <<>>, <<"background">>, <<"background", "main">>,
      <<"background", "background">>, <<"left_person">> }

IntakeTexts ==
    { <<>>, <<[key |-> "title", value |-> "Hi"]>>, <<[key |-> "title", value |-> ""]>>,
      <<[key |-> "promo", value |-> "Hi"]>>,
      <<[key |-> "title", value |-> "Hi"], [key |-> "title", value |-> ""]>> }

MaxImages == 2
CustomizationIds == {"style", "glow"}

Calls ==
    [ client : {"owned", "unknown"}, templateId : {"known", "unknown"},
      dto : [slots : IntakeSlots, texts : IntakeTexts, notes : {"null"}],
      images : 0..MaxImages,
      customizations : {{}, {"style"}, {"glow"}},
      schema : { FormSchema(rs, rt, {"style"}) :
                   rs \in {{}, {"background"}}, rt \in {{}, {"title"}} } ]

\* a special template with a background polygon, with or without an image
IntakeInit ==
    /\ InitCommon
    /\ active = {"g1"}
    /\ template.isSpecial /\ template.dims = WorkingDims
    /\ template.polygons = <<PolyChoices[1]>>
    /\ TemplatePath \in DOMAIN files

\* the handler is called; the call is kept for reference
CreateAny(g) ==
    /\ proc[g].pc = "idle"
    /\ \E c \in Calls :
          /\ CreateFromMultipart(g, c)
          /\ eval' = [fn |-> "createFromMultipart", call |-> c]

IntakeNext == \E g \in Gens : CreateAny(g) \/ Handle(g) \/ Disconnect(g)

IntakeSpec == IntakeInit /\ [][IntakeNext]_vars

\* the reasons for which a call is to be rejected
UnknownClientOrTemplate(c) == c.client = "unknown" \/ c.templateId = "unknown"
DuplicateOrUnknownSlot(c) ==
    \/ \E i, j \in DOMAIN c.dto.slots : i < j /\ c.dto.slots[i] = c.dto.slots[j]
    \/ \E i \in DOMAIN c.dto.slots : c.dto.slots[i] \notin {"background", "main"}
CountMismatch(c) == Len(c.dto.slots) # c.images
MissingRequired(c) ==
    \/ \E k \in c.schema.requiredSlots : \A i \in DOMAIN c.dto.slots : c.dto.slots[i] # k
    \/ \E k \in c.schema.requiredTexts :
          \/ \A i \in DOMAIN c.dto.texts : c.dto.texts[i].key # k
          \/ \E i \in DOMAIN c.dto.texts :
                /\ c.dto.texts[i].key = k /\ c.dto.texts[i].value = ""
                /\ \A j \in DOMAIN c.dto.texts : j > i => c.dto.texts[j].key # k
UnknownTextOrCustomization(c) ==
    \/ \E i \in DOMAIN c.dto.texts : c.dto.texts[i].key # "title"
    \/ c.customizations \ c.schema.customizations # {}

ToBeRejected(c) ==
    \/ UnknownClientOrTemplate(c) \/ ~template.hasImage
    \/ DuplicateOrUnknownSlot(c) \/ CountMismatch(c)
    \/ MissingRequired(c) \/ UnknownTextOrCustomization(c)

LogOfGen(g) == { i \in DOMAIN editLog : editLog[i].gen = g }

(* C27: a call that createFromMultipart is to reject during validation
   (unknown client or template, template without image, duplicate or
   unknown slot id, slot/file count mismatch, missing required slot or text,
   unknown text key or customization) ends rejected and never has a
   generation record, a file or an edit call; so a generation record exists
   only for calls that passed every check. *)
C27_RejectedLeavesNothing ==
    (eval # Nil /\ eval.fn = "createFromMultipart") =>
       \A g \in active :
          ToBeRejected(eval.call) =>
             /\ proc[g].pc = "rejected"
             /\ db[g].status = "none"
             /\ \A path \in DOMAIN files : path.gen # g
             /\ LogOfGen(g) = {}

\* a call was rejected for nothing but the number of its images
C27_Witness ==
    /\ eval # Nil /\ eval.fn = "createFromMultipart"
    /\ CountMismatch(eval.call)
    /\ ~UnknownClientOrTemplate(eval.call) /\ template.hasImage
    /\ ~DuplicateOrUnknownSlot(eval.call) /\ ~MissingRequired(eval.call)
    /\ ~UnknownTextOrCustomization(eval.call)
    /\ proc["g1"].pc = "rejected" /\ db["g1"].status = "none"
----------------------------------------------------------------------------
(* Two requests that differ in the user's notes only *)

TwinRequest(g, slot) ==
    [slots |-> <<slot>>, texts |-> <<>>,
     notes |-> IF g = "g1" THEN "make it pop" ELSE "null"]

\* a step of either handler, each on its own request, both requests with
\* the same upload
TwinStep(g) ==
    /\ Step(g) \/ Disconnect(g)
    /\ \E slot \in MaskedPasses :
          \A h \in Gens : proc'[h].req # Nil => proc'[h].req = TwinRequest(h, slot)

TwinNext == \E g \in Gens : TwinStep(g)

\* both start from the template of PairInit, at the working resolution
TwinSpec == PairInit /\ [][TwinNext]_vars

\* the calls of generation g for a pass, first call or retry
CallsOf(g, pass, attempt) ==
    { i \in DOMAIN editLog : /\ editLog[i].gen = g /\ editLog[i].pass = pass
                             /\ editLog[i].attempt = attempt }

(* C28: the fallback prompts of the background and main passes of two
   requests that differ only in the user's notes are identical, as computed,
   as stored and as sent with the retry; and the retry of a pass is called
   with the base image, the mask and the reference image of the first call,
   so that it differs from it in the prompt at most. *)
C28_FallbackIgnoresNotes ==
    \A pass \in MaskedPasses :
       /\ \A g, h \in Gens :
             /\ (/\ proc[g].pass = pass /\ proc[h].pass = pass
                 /\ proc[g].fallbackPrompt # Nil /\ proc[h].fallbackPrompt # Nil)
                   => proc[g].fallbackPrompt = proc[h].fallbackPrompt
             /\ LET pg == IntermediatePath(g, FallbackStep(pass))
                    ph == IntermediatePath(h, FallbackStep(pass))
                IN  (pg \in DOMAIN files /\ ph \in DOMAIN files)
                       => files[pg] = files[ph]
             /\ \A i \in CallsOf(g, pass, "fallback"), j \in CallsOf(h, pass, "fallback") :
                   editLog[i].prompt = editLog[j].prompt
       /\ \A g \in Gens :
             \A i \in CallsOf(g, pass, "primary"), j \in CallsOf(g, pass, "fallback") :
                /\ editLog[j].basePath = editLog[i].basePath
                /\ editLog[j].base = editLog[i].base
                /\ editLog[j].mask = editLog[i].mask
                /\ editLog[j].refs = editLog[i].refs

\* both requests had their main pass retried: the first calls carried
\* different prompts, the retries the same one
C28_Witness ==
    \E i \in CallsOf("g1", "main", "primary"), j \in CallsOf("g2", "main", "primary"),
       k \in CallsOf("g1", "main", "fallback"), l \in CallsOf("g2", "main", "fallback") :
       /\ editLog[i].prompt # editLog[j].prompt
       /\ editLog[k].prompt = editLog[l].prompt
       /\ editLog[k].prompt # editLog[i].prompt
       /\ editLog[k].mask = editLog[i].mask /\ editLog[k].mask # NoFile
----------------------------------------------------------------------------
(* TemplatesService: the stored templates and the operations on them *)

MaxTemplates == 2

SpecialSlots == <<"background", "main">>

\* subject slot ids a request or a stored config may carry
SlotLists == { <<>>, SpecialSlots, <<"slot_1">> }

\* config.polygons: absent, or a list (possibly empty) of polygons
NoPolygons == [has |-> FALSE, list |-> <<>>]
PolygonList(l) == [has |-> TRUE, list |-> l]
PolygonValues == { NoPolygons, PolygonList(<<>>), PolygonList(<<"p1">>) }

\* the number of subject slots a reconstruction spec describes
SpecCounts == 0..1

TemplateRow(isSpecial, hasImage, slots, polygons, specSlots) ==
    [isSpecial |-> isSpecial, hasImage |-> hasImage, slots |-> slots,
     polygons |-> polygons, specSlots |-> specSlots]

\* lines 371-388: slot_1 .. slot_n for the n subject slots of the spec
deriveConfigFromReconstructionSpec(specSlots) == [i \in 1..specSlots |-> "slot_1"]

\* lines 390-404
applySpecialTemplateOverrides(slots, isSpecial) ==
    IF isSpecial THEN SpecialSlots ELSE slots

\* lines 310-348: the row as stored once the template has been read
normalizeSpecialTemplateIfNeeded(row) ==
    IF ~row.isSpecial THEN row
    ELSE IF row.slots = SpecialSlots THEN row
    ELSE [row EXCEPT !.slots = applySpecialTemplateOverrides(row.slots, TRUE)]

\* lines 160, 211: ...(preservedPolygons ? { polygons: preservedPolygons } : null)
PreservedPolygons(row) == IF row.polygons.has THEN row.polygons ELSE NoPolygons

Rows == eval.rows
Ids == DOMAIN eval.rows

Done(op, id, withPolygons, before, rows) ==
    eval' = [eval EXCEPT !.rows = rows,
                         !.last = [op |-> op, id |-> id, withPolygons |-> withPolygons,
                                   before |-> before]]

TemplatesInit ==
    /\ IdlePipeline
    /\ \E key \in BOOLEAN :
          eval = [fn |-> "TemplatesService", rows |-> <<>>, apiKey |-> key,
                  last |-> [op |-> "none", id |-> 0, withPolygons |-> FALSE,
                            before |-> Nil]]

IsTemplates == eval # Nil /\ eval.fn = "TemplatesService"

\* lines 36-48: the row is stored with the config of the request
create ==
    /\ IsTemplates /\ Len(Rows) < MaxTemplates
    /\ \E isSpecial \in BOOLEAN, hasImage \in BOOLEAN, slots \in SlotLists,
          polygons \in PolygonValues :
          LET row == TemplateRow(isSpecial, hasImage, slots, polygons, 0)
          IN  Done("create", Len(Rows) + 1, polygons.has, row, Append(Rows, row))
    /\ UNCHANGED pipeVars

\* lines 231-296: a draft row is stored, then the image is analysed; the
\* analysis returns a spec or raises, which leaves the draft
uploadAndAnalyze ==
    /\ IsTemplates /\ Len(Rows) < MaxTemplates
    /\ \E isSpecial \in BOOLEAN, analysed \in BOOLEAN, n \in SpecCounts :
          LET draft == TemplateRow(isSpecial, FALSE, <<>>, NoPolygons, 0)
              final == TemplateRow(isSpecial, TRUE,
                          applySpecialTemplateOverrides(
                             deriveConfigFromReconstructionSpec(n), isSpecial),
                          NoPolygons, n)
              row == IF analysed THEN final ELSE draft
          IN  Done("uploadAndAnalyze", Len(Rows) + 1, FALSE, row, Append(Rows, row))
    /\ UNCHANGED pipeVars

\* lines 50-56
getById ==
    /\ IsTemplates
    /\ \E id \in Ids :
          Done("getById", id, FALSE, Rows[id],
               [Rows EXCEPT ![id] = normalizeSpecialTemplateIfNeeded(Rows[id])])
    /\ UNCHANGED pipeVars

\* lines 58-101: the request carries subject slots and, optionally, polygons
updateConfig ==
    /\ IsTemplates
    /\ \E id \in Ids, slots \in SlotLists, polygons \in PolygonValues :
          LET template_ == normalizeSpecialTemplateIfNeeded(Rows[id])
              next == [template_ EXCEPT
                          !.slots = applySpecialTemplateOverrides(slots,
                                                                  template_.isSpecial),
                          !.polygons = IF polygons.has THEN polygons
                                       ELSE template_.polygons]
          IN  Done("updateConfig", id, polygons.has, Rows[id],
                   [Rows EXCEPT ![id] = next])
    /\ UNCHANGED pipeVars

\* lines 103-124: the source is read, then a new row gets its config
copy ==
    /\ IsTemplates /\ Len(Rows) < MaxTemplates
    /\ \E id \in Ids :
          LET source == normalizeSpecialTemplateIfNeeded(Rows[id])
          IN  Done("copy", id, FALSE, Rows[id],
                   Append([Rows EXCEPT ![id] = source], source))
    /\ UNCHANGED pipeVars

\* lines 134-165
rebuildInputsFromReconstructionSpec ==
    /\ IsTemplates
    /\ \E id \in Ids :
          LET template_ == normalizeSpecialTemplateIfNeeded(Rows[id])
              next == [template_ EXCEPT
                          !.slots = applySpecialTemplateOverrides(
                                       deriveConfigFromReconstructionSpec(
                                          template_.specSlots),
                                       template_.isSpecial),
                          !.polygons = PreservedPolygons(template_)]
          IN  Done("rebuildInputsFromReconstructionSpec", id, FALSE, Rows[id],
                   [Rows EXCEPT ![id] = next])
    /\ UNCHANGED pipeVars

\* lines 167-217: the template is read; without an image or without
\* OPENAI_API_KEY the call raises; the analysis returns a spec or raises
reanalyze ==
    /\ IsTemplates
    /\ \E id \in Ids, analysed \in BOOLEAN, n \in SpecCounts :
          LET template_ == normalizeSpecialTemplateIfNeeded(Rows[id])
              next == [template_ EXCEPT
                          !.specSlots = n,
                          !.slots = applySpecialTemplateOverrides(
                                       deriveConfigFromReconstructionSpec(n),
                                       template_.isSpecial),
                          !.polygons = PreservedPolygons(template_)]
              raises == ~template_.hasImage \/ ~eval.apiKey \/ ~analysed
          IN  Done("reanalyze", id, FALSE, Rows[id],
                   [Rows EXCEPT ![id] = IF raises THEN template_ ELSE next])
    /\ UNCHANGED pipeVars

TemplatesNext ==
    \/ create \/ uploadAndAnalyze \/ getById \/ updateConfig \/ copy
    \/ rebuildInputsFromReconstructionSpec \/ reanalyze

TemplatesSpec == TemplatesInit /\ [][TemplatesNext]_vars

(* C29: the stored config of every special template has the subject slots
   background and main, in that order, after any sequence of operations. *)
C29_SpecialSlotsFixed ==
    IsTemplates =>
       \A id \in Ids : Rows[id].isSpecial => Rows[id].slots = <<"background", "main">>

\* an operation on an existing template other than updateConfig with polygons
KeepsPolygons(last) ==
    \/ last.op \in {"getById", "copy", "rebuildInputsFromReconstructionSpec",
                    "reanalyze"}
    \/ last.op = "updateConfig" /\ ~last.withPolygons

(* C30: the polygons of a stored template are as they were after
   updateConfig without polygons, rebuildInputsFromReconstructionSpec,
   reanalyze and the normalization of getById; and after reanalyze with no
   OPENAI_API_KEY the whole template is as it was. *)
C30_PolygonsFrame ==
    IsTemplates =>
       /\ KeepsPolygons(eval.last) =>
             Rows[eval.last.id].polygons = eval.last.before.polygons
       /\ (eval.last.op = "reanalyze" /\ ~eval.apiKey) =>
             Rows[eval.last.id] = eval.last.before
====
